---- MODULE Spec2Model ----
(***************************************************************************)
(* The SABRE qubit placement-and-routing pass of                           *)
(* lib/Optimizer/Transforms/Mapping.cpp: the pass driver                   *)
(* (Mapper::runOnOperation), the identity placement and the router         *)
(* (SabreRouter).  Device and Placement (cudaq/Support/Device.h,           *)
(* cudaq/Support/Placement.h) are modelled from their contracts.           *)
(*                                                                         *)
(* Qubits are numbered from 0 as in the source; tables indexed by a qubit  *)
(* are functions on 0..n-1, layers and lists are sequences.                *)
(***************************************************************************)
EXTENDS Integers, Sequences, FiniteSets, TLC

(***************************************************************************)
(* Bounds of the model.                                                    *)
(***************************************************************************)
\* largest device of the exhaustively enumerated inputs
MaxQubits == 4
\* longest program of the exhaustively enumerated inputs
MaxOps == 2
\* swaps that are logged one by one; beyond it the log and the counter saturate
SwapCap == 12

(***************************************************************************)
(* Parameters of SabreRouter.                                              *)
(***************************************************************************)
extendedLayerSize == 20
roundsDecayReset == 5
\* phyDecay, decayDelta and extendedLayerWeight are multiples of 0.5: a decay
\* weight is held as its number of halves, a cost as a fraction <<num, den>>.
\* The fractions are exact where the source rounds to double.
initialDecay == 2
decayDelta == 1
extendedLayerWeight == <<1, 2>>
\* llvm::SmallSet<DeviceQ, 32>: a vector below this size, a std::set above
smallSetSize == 32

VARIABLES
  deviceOption,    \* the device option, as its tokens
  numBlocks,       \* blocks of the function
  device,          \* the Device d, as the generator call that built it
  ops,             \* the block: op id -> [kind, ins, named]
  blockOrder,      \* the ids of the ops of the block, in block order
  sources,         \* sequence of the ids of the null_wire ops
  numOrigQubits,
  wireToVirtualQ,
  placement,       \* [vrToPhy, phyToVr]
  phyDecay,
  phyToWire,
  frontLayer,
  extendedLayer,
  measureLayer,
  measureLayerSet,
  involvedPhy,
  visited,
  allowMeasurementMapping,
  numSwapSearches,
  candidates,      \* chooseSwap: the candidate list
  cost,            \* chooseSwap: the costs computed so far
  pc,              \* position in runOnOperation / route / chooseSwap
  passFailed,      \* signalPassFailure was called
  mapping_v2p,     \* the published attribute: [present, value]
  swapLog,         \* the quake.swap ops created by addSwap, in order
  input,           \* history: the device, qubit count and program of Init
  placementAtStall,\* history: the placement when chooseSwap was entered
  retired,         \* history: op id -> one record per successful mapOperation
  waited           \* history: op id -> how the op entered and waited in frontLayer

vars == <<deviceOption, numBlocks, device, ops, blockOrder, sources, numOrigQubits, wireToVirtualQ, placement,
          phyDecay, phyToWire, frontLayer, extendedLayer, measureLayer,
          measureLayerSet, involvedPhy, visited, allowMeasurementMapping,
          numSwapSearches, candidates, cost, pc, passFailed, mapping_v2p,
          swapLog, input, placementAtStall, retired, waited>>

(***************************************************************************)
(* Small helpers.                                                          *)
(***************************************************************************)
Range(s) == {s[i] : i \in DOMAIN s}

\* f(x) and f(x, y) with the arguments evaluated once, before the call: the
\* state a loop carries from one iteration to the next is a value
Eval(f(_), x) == CHOOSE r \in {f(v) : v \in {x}} : TRUE
Eval2(f(_, _), x, y) == CHOOSE r \in {f(v, w) : v \in {x}, w \in {y}} : TRUE

RECURSIVE Concat(_)
Concat(ss) == IF ss = <<>> THEN <<>> ELSE Head(ss) \o Eval(LAMBDA t : Concat(t), Tail(ss))

RECURSIVE Sum(_)
Sum(s) == IF s = <<>> THEN 0 ELSE Head(s) + Eval(LAMBDA t : Sum(t), Tail(s))

Contains(s, x) == \E i \in DOMAIN s : s[i] = x

\* integer square root, as the truncation of std::sqrt
ISqrt(n) == CHOOSE r \in 0..n : r * r <= n /\ (r + 1) * (r + 1) > n

(***************************************************************************)
(* Fractions <<num, den>> with den > 0.                                    *)
(***************************************************************************)
RatAdd(a, b) == <<a[1] * b[2] + b[1] * a[2], a[2] * b[2]>>
RatMul(a, b) == <<a[1] * b[1], a[2] * b[2]>>
RatDivInt(a, n) == <<a[1], a[2] * n>>
RatLess(a, b) == a[1] * b[2] < b[1] * a[2]
RatEq(a, b) == a[1] * b[2] = b[1] * a[2]

(***************************************************************************)
(* Device: the topology generators and the distance/adjacency oracle.      *)
(***************************************************************************)
PathEdges(n) == [i \in 1..(n - 1) |-> <<i - 1, i>>]
RingEdges(n) == [i \in 1..n |-> <<i - 1, i % n>>]
StarEdges(n, c) == [j \in 1..(n - 1) |-> <<c, IF j - 1 < c THEN j - 1 ELSE j>>]
GridCellEdges(w, h, e) ==
  (IF e % w < w - 1 THEN << <<e, e + 1>> >> ELSE <<>>) \o
  (IF e \div w < h - 1 THEN << <<e, e + w>> >> ELSE <<>>)
GridEdges(w, h) == Concat([i \in 1..(w * h) |-> GridCellEdges(w, h, i - 1)])

\* the device files that exist, by name: qubit count and edges.  A file that
\* does not exist, or no file name, gives the empty device.
DeviceFiles ==
  (<<"split.txt">> :> [numQubits |-> 4, edges |-> << <<0, 1>>, <<2, 3>> >>])
  @@ (<<"line.txt">> :> [numQubits |-> 3, edges |-> << <<0, 1>>, <<1, 2>> >>])

fileExists(filename) == filename \in DOMAIN DeviceFiles

DeviceSize(d) ==
  CASE d.name = "path" -> d.dim0
    [] d.name = "ring" -> d.dim0
    [] d.name = "star" -> IF d.dim1 < d.dim0 THEN d.dim0 ELSE 0
    [] d.name = "grid" -> d.dim0 * d.dim1
    [] d.name = "file" -> IF fileExists(d.filename)
                          THEN DeviceFiles[d.filename].numQubits ELSE 0
    [] OTHER -> 0

DeviceEdges(d) ==
  CASE d.name = "path" -> PathEdges(d.dim0)
    [] d.name = "ring" -> RingEdges(d.dim0)
    [] d.name = "star" -> IF d.dim1 < d.dim0 THEN StarEdges(d.dim0, d.dim1) ELSE <<>>
    [] d.name = "grid" -> GridEdges(d.dim0, d.dim1)
    [] d.name = "file" -> IF fileExists(d.filename)
                          THEN DeviceFiles[d.filename].edges ELSE <<>>
    [] OTHER -> <<>>

\* the neighbours of p in the order their edges were added
RECURSIVE NeighboursIn(_, _)
NeighboursIn(edges, p) ==
  IF edges = <<>> THEN <<>>
  ELSE LET e == Head(edges)
       IN (IF e[1] = p THEN <<e[2]>> ELSE IF e[2] = p THEN <<e[1]>> ELSE <<>>)
          \o Eval(LAMBDA t : NeighboursIn(t, p), Tail(edges))

\* the distance of two qubits that no path connects
Unreachable == 1000

\* breadth-first search from the set `reached`, k hops done
RECURSIVE Bfs(_, _, _, _, _)
Bfs(nb, reached, frontier, q, k) ==
  IF q \in frontier THEN k
  ELSE IF frontier = {} THEN Unreachable
  ELSE LET next == UNION {Range(nb[x]) : x \in frontier} \ reached
       IN Eval2(LAMBDA r, f : Bfs(nb, r, f, q, k + 1), reached \cup next, next)

BuildDevice(d) ==
  LET n == DeviceSize(d)
      nb == [p \in 0..(n - 1) |-> NeighboursIn(DeviceEdges(d), p)]
  IN [numQubits |-> n,
      neighbours |-> nb,
      distance |-> [p \in 0..(n - 1) |->
                      [q \in 0..(n - 1) |-> Bfs(nb, {p}, {p}, q, 0)]]]

(***************************************************************************)
(* Placement.                                                              *)
(***************************************************************************)
Invalid == -1

NewPlacement(numVr, numPhy) ==
  [vrToPhy |-> [v \in 0..(numVr - 1) |-> Invalid],
   phyToVr |-> [p \in 0..(numPhy - 1) |-> Invalid]]

PlacementMap(pl, v, p) ==
  [vrToPhy |-> [pl.vrToPhy EXCEPT ![v] = p],
   phyToVr |-> [pl.phyToVr EXCEPT ![p] = v]]

getPhy(pl, v) == pl.vrToPhy[v]
getVr(pl, p) == pl.phyToVr[p]

PlacementSwap(pl, p, q) ==
  LET vp == pl.phyToVr[p]
      vq == pl.phyToVr[q]
      a == IF vp # Invalid THEN [pl.vrToPhy EXCEPT ![vp] = q] ELSE pl.vrToPhy
      b == IF vq # Invalid THEN [a EXCEPT ![vq] = p] ELSE a
  IN [vrToPhy |-> b,
      phyToVr |-> [pl.phyToVr EXCEPT ![p] = vq, ![q] = vp]]

\* Mapping.cpp: identityPlacement
RECURSIVE identityPlacementFrom(_, _)
identityPlacementFrom(pl, i) ==
  IF i >= Cardinality(DOMAIN pl.vrToPhy) THEN pl
  ELSE Eval(LAMBDA m : identityPlacementFrom(m, i + 1), PlacementMap(pl, i, i))

\* variant: every virtual qubit is mapped to device qubit 0
identityPlacementAllOnZero(pl) ==
  [vrToPhy |-> [v \in DOMAIN pl.vrToPhy |-> 0],
   phyToVr |-> [p \in DOMAIN pl.phyToVr |->
                  IF p = 0 THEN Cardinality(DOMAIN pl.vrToPhy) - 1 ELSE Invalid]]

identityPlacement(pl) == identityPlacementFrom(pl, 0)

(***************************************************************************)
(* The circuit: quake operations in value (wire) form.  A wire is          *)
(* <<id, k>>, result k of the op with that id; the ops created by addSwap  *)
(* have the ids -1, -2, ...                                                *)
(***************************************************************************)
\* "other" is an op on a wire that the mapper does not support (a reset, say)
isSupportedMappingOperation(op) == op.kind \in {"g1", "g2", "g3", "mz", "sink"}
hasQuantumMeasureTrait(op) == op.kind = "mz"
getQuantumOperands(op) == op.ins
NumResults(op) == IF op.kind = "sink" THEN 0
                  ELSE IF op.kind = "null_wire" THEN 1 ELSE Len(op.ins)
getQuantumResults(id, op) == [k \in 1..NumResults(op) |-> <<id, k>>]

\* the users of the results of op id: result by result, a user once per use
UsersOfWire(o, w) ==
  Concat([u \in 1..Len(o) |->
            Concat([i \in 1..Len(o[u].ins) |->
                      IF o[u].ins[i] = w THEN <<u>> ELSE <<>>])])
getUsers(o, id) ==
  Concat([k \in 1..NumResults(o[id]) |-> UsersOfWire(o, <<id, k>>)])

(***************************************************************************)
(* Inputs: a program over n virtual qubits, each op naming the qubits it   *)
(* acts on, and its translation to wire form (what the compiler front end  *)
(* hands to the pass).                                                     *)
(***************************************************************************)
Gate(kind, qs) == [kind |-> kind, qs |-> qs, named |-> FALSE]
Mz(q, named) == [kind |-> "mz", qs |-> <<q>>, named |-> named]
\* a named measurement of two qubits
Mz2(a, b) == [kind |-> "mz", qs |-> <<a, b>>, named |-> TRUE]

Alphabet(n) ==
  ({Gate("g2", <<a, b>>) : a, b \in 0..(n - 1)} \ {Gate("g2", <<a, a>>) : a \in 0..(n - 1)})
  \cup {Gate("g1", <<a>>) : a \in 0..(n - 1)}
  \cup {Gate("sink", <<a>>) : a \in 0..(n - 1)}
  \cup {Mz(a, TRUE) : a \in 0..(n - 1)}
  \cup {Mz(0, FALSE)}
  \cup {Gate("other", <<a>>) : a \in 0..(n - 1)}
  \cup (IF n >= 3 THEN {Gate("g3", <<0, 1, 2>>), Mz2(0, 2)} ELSE {})

\* no op acts on a qubit after its sink
WellFormed(prog) ==
  \A i, j \in DOMAIN prog :
    (i < j /\ prog[i].kind = "sink") => ~Contains(prog[j].qs, prog[i].qs[1])

Programs(n, len) ==
  UNION {{p \in [1..l -> Alphabet(n)] : WellFormed(p)} : l \in 0..len}

RECURSIVE ToWireForm(_, _, _)
ToWireForm(prog, o, cur) ==
  IF prog = <<>> THEN o
  ELSE LET g == Head(prog)
           id == Len(o) + 1
           op == [kind |-> g.kind, ins |-> [i \in 1..Len(g.qs) |-> cur[g.qs[i]]],
                  named |-> g.named]
           cur2 == [q \in DOMAIN cur |->
                      IF \E i \in 1..Len(g.qs) : g.qs[i] = q
                      THEN <<id, CHOOSE i \in 1..Len(g.qs) : g.qs[i] = q>>
                      ELSE cur[q]]
       IN Eval2(LAMBDA o2, c : ToWireForm(Tail(prog), o2, c), Append(o, op), cur2)

NullWire == [kind |-> "null_wire", ins |-> <<>>, named |-> FALSE]

Block(n, prog) ==
  ToWireForm(prog, [i \in 1..n |-> NullWire], [q \in 0..(n - 1) |-> <<q + 1, 1>>])

Dev(name, dim0, dim1) == [name |-> name, dim0 |-> dim0, dim1 |-> dim1, filename |-> <<>>]
FileDev(filename) == [name |-> "file", dim0 |-> 0, dim1 |-> 0, filename |-> filename]
NoDevice == Dev("", 0, 0)

\* The device option is a string; it is held as its sequence of tokens: a
\* name, "(", ")", ",", " " (white space), a decimal number, a file name.
Numerals == <<"0", "1", "2", "3", "4", "5", "6", "7", "8", "9">>
Numeral(n) == Numerals[n + 1]

Option(d) ==
  IF d.name = "file" THEN <<"file", "(">> \o d.filename \o <<")">>
  ELSE IF d.name \in {"star", "grid"}
    THEN <<d.name, "(", Numeral(d.dim0), ",", Numeral(d.dim1), ")">>
  ELSE <<d.name, "(", Numeral(d.dim0), ")">>

\* the function handed to the pass, and the option it is run with
Input(option, n, prog, blocks) ==
  [option |-> option, n |-> n, prog |-> prog, blocks |-> blocks]

SmallDevices ==
  {Dev("path", n, 0) : n \in 2..MaxQubits}
  \cup {Dev("ring", n, 0) : n \in 3..MaxQubits}
  \cup {Dev("star", MaxQubits, 1)}
  \cup {Dev("grid", 2, MaxQubits \div 2)}

\* every short program on every small device, the device one qubit short included
SmallInputs ==
  UNION {UNION {{Input(Option(d), n, p, 1) : p \in Programs(n, MaxOps)} :
                  n \in 1..DeviceSize(d)} :
           d \in SmallDevices}

\* one qubit more than the device has
OversizedInputs ==
  {Input(Option(d), DeviceSize(d) + 1, <<>>, 1) : d \in SmallDevices}

\* a path of 6 on which the router swaps for ever
StallingProgram ==
  <<Gate("g2", <<0, 3>>), Gate("g2", <<1, 4>>), Gate("g2", <<2, 5>>), Gate("g2", <<3, 4>>)>>

ScenarioInputs ==
  {Input(Option(Dev("path", 6, 0)), 6, StallingProgram, 1),
   Input(Option(Dev("path", 6, 0)), 6, SubSeq(StallingProgram, 1, 3), 1),
   Input(Option(Dev("ring", 4, 0)), 4, <<Gate("g2", <<0, 2>>)>>, 1),
   Input(Option(Dev("path", 2, 0)), 2, <<Gate("g2", <<0, 1>>)>>, 1),
   Input(Option(Dev("path", 5, 0)), 3, <<Gate("g2", <<0, 2>>), Mz(1, TRUE)>>, 1),
   Input(Option(FileDev(<<"split.txt">>)), 4, <<Gate("g2", <<0, 2>>)>>, 1)}

\* functions of two blocks
MultiBlockInputs ==
  {Input(Option(Dev("ring", 4, 0)), 3, <<Gate("g2", <<0, 2>>)>>, 2),
   Input(Option(Dev("path", 2, 0)), 2, <<>>, 2)}

\* device options other than a generator call with all its dimensions
OptionInputs ==
  {Input(<<"path", "(", "3">>, 3, <<Gate("g2", <<0, 2>>)>>, 1),
   Input(<<"grid", "(", "2", ",", "2">>, 2, <<>>, 1),
   Input(<<"file">>, 2, <<Gate("g2", <<0, 1>>)>>, 1),
   Input(<<"file", "(", "line.txt">>, 2, <<Gate("g2", <<0, 1>>)>>, 1),
   Input(<<"file", "(", "none.txt", ")">>, 2, <<Gate("g2", <<0, 1>>)>>, 1),
   Input(<<"file", "(", " ", "line.txt", ")">>, 3, <<Gate("g2", <<0, 2>>)>>, 1),
   Input(<<"file", "(", "line.txt", ")">>, 4, <<>>, 1),
   Input(<<"File", "(", "line.txt", ")">>, 2, <<>>, 1),
   Input(<<"torus", "(", "4", ")">>, 2, <<Gate("g2", <<0, 1>>)>>, 1),
   Input(<<"path", "(", " ", "3", " ", ")">>, 3, <<Gate("g2", <<0, 2>>)>>, 1),
   Input(<<"grid", "(", "2", ",", " ", "2", ")">>, 4, <<Gate("g2", <<0, 3>>)>>, 1),
   Input(<<"path", "(", "0", ")">>, 2, <<Gate("g2", <<0, 1>>)>>, 1),
   Input(<<"path">>, 3, <<Gate("g2", <<0, 2>>)>>, 1),
   Input(<<"ring">>, 3, <<Gate("g2", <<0, 2>>)>>, 1),
   Input(<<"grid">>, 3, <<Gate("g2", <<0, 2>>)>>, 1),
   Input(<<"grid">>, 4, <<Gate("g2", <<0, 3>>)>>, 1)}

\* three blocked gates on a path of 6, each followed by seven more gates on
\* the same pair of qubits: every level of the lookahead holds three gates
ChainLength == 8
ChainProgram ==
  [i \in 1..(3 * ChainLength) |-> Gate("g2", <<(i - 1) % 3, ((i - 1) % 3) + 3>>)]
LookaheadInputs == {Input(Option(Dev("path", 6, 0)), 6, ChainProgram, 1)}

\* a blocked gate on a path of 3 whose lookahead reaches a single-qubit gate,
\* a measurement, a two-qubit gate and a sink
MixedProgram ==
  <<Gate("g2", <<0, 2>>), Gate("g1", <<0>>), Mz(2, TRUE), Gate("g2", <<0, 1>>),
    Gate("sink", <<1>>)>>
MixedInputs == {Input(Option(Dev("path", 3, 0)), 3, MixedProgram, 1)}

\* a star of 6 with centre 4 and 3 declared qubits: the gate on the leaves 0
\* and 1 needs a swap with the centre, the auxiliary qubit in the middle
PruningInputs == {Input(Option(Dev("star", 6, 4)), 3, <<Gate("g2", <<0, 1>>)>>, 1)}

\* gates between leaves of a star of 5 with centre 1: the centre takes part in
\* four swaps in a row
CentreProgram ==
  <<Gate("g2", <<0, 2>>), Gate("g2", <<2, 3>>), Gate("g2", <<0, 3>>),
    Gate("g2", <<2, 3>>), Gate("g2", <<0, 2>>), Gate("g2", <<0, 4>>)>>
DecayInputs == {Input(Option(Dev("star", 5, 1)), 5, CentreProgram, 1)}

Inputs ==
  SmallInputs \cup OversizedInputs \cup ScenarioInputs \cup MultiBlockInputs
    \cup OptionInputs \cup LookaheadInputs \cup MixedInputs \cup PruningInputs
    \cup DecayInputs

(***************************************************************************)
(* Initial state: the function handed to the pass.                         *)
(***************************************************************************)
NoMap == [present |-> FALSE, value |-> <<>>]

InitFrom(inputs) ==
  \E inp \in inputs :
    /\ input = inp
    /\ placementAtStall = NewPlacement(0, 0)
    /\ deviceOption = inp.option
    /\ numBlocks = inp.blocks
    /\ ops = Block(inp.n, inp.prog)
    /\ blockOrder = [i \in 1..(inp.n + Len(inp.prog)) |-> i]
    /\ device = NoDevice
    /\ sources = <<>>
    /\ numOrigQubits = 0
    /\ wireToVirtualQ = <<>>
    /\ placement = NewPlacement(0, 0)
    /\ phyDecay = <<>>
    /\ phyToWire = <<>>
    /\ frontLayer = <<>>
    /\ extendedLayer = <<>>
    /\ measureLayer = <<>>
    /\ measureLayerSet = {}
    /\ involvedPhy = <<>>
    /\ visited = <<>>
    /\ allowMeasurementMapping = FALSE
    /\ numSwapSearches = 0
    /\ candidates = <<>>
    /\ cost = <<>>
    /\ pc = "start"
    /\ passFailed = FALSE
    /\ mapping_v2p = NoMap
    /\ swapLog = <<>>
    /\ retired = <<>>
    /\ waited = <<>>

Init == InitFrom(Inputs)

(***************************************************************************)
(* Mapper::runOnOperation up to the placement: sanity checks, the wire to  *)
(* virtual qubit mapping, the device, the auxiliary qubits.                *)
(***************************************************************************)
\* DenseMap::operator[]: a missing key is inserted with a default VirtualQ
virtualQOf(w2v, wire) == IF wire \in DOMAIN w2v THEN w2v[wire] ELSE Invalid

\* variant: operators on any number of qubits are let through
usesTooManyQubitsNever(op) == FALSE

\* "Cannot map a kernel with operators that use more than two qubits."
usesTooManyQubits(op) ==
  ~hasQuantumMeasureTrait(op) /\ Len(getQuantumOperands(op)) > 2

\* the scan of the block; i is the next op
RECURSIVE sanityChecks(_, _, _, _)
sanityChecks(o, i, srcs, w2v) ==
  IF i > Len(o) THEN [failed |-> FALSE, sources |-> srcs, wireToVirtualQ |-> w2v]
  ELSE
    LET op == o[i]
        stop == [failed |-> TRUE, sources |-> srcs, wireToVirtualQ |-> w2v]
    IN IF op.kind = "mz" /\ ~op.named THEN stop
       ELSE IF op.kind = "null_wire"
         THEN Eval2(LAMBDA ss, m : sanityChecks(o, i + 1, ss, m),
                    Append(srcs, i), (<<i, 1>> :> Len(srcs)) @@ w2v)
       ELSE IF isSupportedMappingOperation(op)
         THEN IF op.kind = "sink" THEN sanityChecks(o, i + 1, srcs, w2v)
              ELSE IF usesTooManyQubits(op)
                THEN stop
              ELSE LET wireOperands == getQuantumOperands(op)
                       news == [w \in Range(getQuantumResults(i, op)) |->
                                  virtualQOf(w2v, wireOperands[w[2]])]
                       defaults == [w \in Range(wireOperands) \ DOMAIN w2v |-> Invalid]
                   IN Eval(LAMBDA m : sanityChecks(o, i + 1, srcs, m),
                           w2v @@ defaults @@ news)
       ELSE sanityChecks(o, i + 1, srcs, w2v)

\* StringRef::find_first_of('('): the index of the first "(", or npos
RECURSIVE findFirstParen(_, _)
findFirstParen(t, i) ==
  IF i > Len(t) THEN Len(t) + 1
  ELSE IF t[i] = "(" THEN i ELSE findFirstParen(t, i + 1)

\* StringRef::ltrim
RECURSIVE ltrim(_)
ltrim(t) == IF t # <<>> /\ Head(t) = " " THEN ltrim(Tail(t)) ELSE t

\* StringRef::consume_front / consume_back: [ok, rest]
consume_front(t, tok) ==
  IF t # <<>> /\ Head(t) = tok THEN [ok |-> TRUE, rest |-> Tail(t)]
  ELSE [ok |-> FALSE, rest |-> t]
consume_back(t, tok) ==
  IF t # <<>> /\ t[Len(t)] = tok THEN [ok |-> TRUE, rest |-> SubSeq(t, 1, Len(t) - 1)]
  ELSE [ok |-> FALSE, rest |-> t]

\* StringRef::consumeInteger(10, result): no digits, no change of result or string
consumeInteger(t, result) ==
  IF t # <<>> /\ Contains(Numerals, Head(t))
  THEN [value |-> (CHOOSE i \in DOMAIN Numerals : Numerals[i] = Head(t)) - 1,
        rest |-> Tail(t)]
  ELSE [value |-> result, rest |-> t]

\* the characters before the first "(" as a name; several tokens name nothing
nameOf(t) == IF t = <<>> THEN "" ELSE IF Len(t) = 1 THEN t[1] ELSE "?"

equals_insensitive_file(name) == name \in {"file", "File", "FILE"}

\* the "Get device" part of runOnOperation: [name, dim0, dim1, filename, failed]
parseDeviceOption(option) ==
  LET paren == findFirstParen(option, 1)
      name == nameOf(SubSeq(option, 1, paren - 1))
      deviceDef == IF paren - 1 < Len(option) /\ paren > 1
                   THEN SubSeq(option, paren, Len(option)) ELSE option
      open == consume_front(deviceDef, "(")
      parsed(d0, d1, f, failed) ==
        [name |-> name, dim0 |-> d0, dim1 |-> d1, filename |-> f, failed |-> failed]
  IN IF equals_insensitive_file(name)
     THEN IF open.ok
          THEN LET close == consume_back(ltrim(open.rest), ")")
               IN IF close.ok
                  THEN parsed(0, 0, close.rest, ~fileExists(close.rest))
                  ELSE parsed(0, 0, <<>>, TRUE)
          ELSE parsed(0, 0, <<>>, TRUE)
     ELSE IF open.ok
          THEN LET first == consumeInteger(ltrim(open.rest), 0)
                   comma == consume_front(ltrim(first.rest), ",")
                   second == IF comma.ok THEN consumeInteger(comma.rest, 0)
                             ELSE [value |-> 0, rest |-> comma.rest]
                   close == consume_front(ltrim(second.rest), ")")
               IN parsed(first.value, second.value, <<>>, ~close.ok)
          ELSE parsed(0, 0, <<>>, FALSE)

\* variant: dimensions that were not given stay 0
deviceDimsAsGiven(opt, numSources) == opt

\* the dimensions the device is built with
deviceDims(opt, numSources) ==
  LET deviceNumQubits == IF opt.name = "grid" THEN opt.dim0 * opt.dim1 ELSE opt.dim0
  IN IF deviceNumQubits # 0 THEN opt
     ELSE LET d0 == IF opt.name = "grid" THEN ISqrt(numSources) ELSE numSources
          IN [opt EXCEPT !.dim0 = d0, !.dim1 = d0]

\* Device d: the generator named by the option, or the empty device
buildFrom(opt) ==
  IF opt.name \in {"path", "ring", "star", "grid"} THEN Dev(opt.name, opt.dim0, opt.dim1)
  ELSE IF opt.name = "file" THEN FileDev(opt.filename)
  ELSE NoDevice

\* variant: no auxiliary qubit is created
addAuxiliaryNone(st, m) == st

\* the auxiliary null_wire ops appended for a device of m qubits
RECURSIVE addAuxiliary(_, _)
addAuxiliary(st, m) ==
  IF Len(st.sources) >= m THEN st
  ELSE LET id == Len(st.ops) + 1
       IN Eval(LAMBDA s : addAuxiliary(s, m),
               [ops |-> Append(st.ops, NullWire),
                sources |-> Append(st.sources, id),
                wireToVirtualQ |-> (<<id, 1>> :> Len(st.sources)) @@ st.wireToVirtualQ])

\* variant: a device one qubit short is let through
hasFewerQubitsOffByOne(numSources, m) == numSources > m + 1

\* "Your device has fewer qubits than your program is attempting to use"
hasFewerQubits(numSources, m) == numSources > m

\* builder.setInsertionPointAfter(op); builder.create...: ids placed after op
insertAfter(order, op, ids) ==
  LET pos == CHOOSE i \in DOMAIN order : order[i] = op
  IN SubSeq(order, 1, pos) \o ids \o SubSeq(order, pos + 1, Len(order))

Preflight ==
  /\ pc = "start"
  /\ \E opt \in {parseDeviceOption(deviceOption)}, s \in {sanityChecks(ops, 1, <<>>, <<>>)} :
     \E d \in {buildFrom(deviceDims(opt, Len(s.sources)))} :
       LET blockError == numBlocks > 1
           n == Len(s.sources)
           deviceNumQubits == IF opt.name = "grid" THEN opt.dim0 * opt.dim1 ELSE opt.dim0
           m == DeviceSize(d)
           fail == /\ passFailed' = TRUE
                   /\ pc' = "exit"
                   /\ UNCHANGED <<ops, blockOrder, sources, numOrigQubits, wireToVirtualQ>>
       IN IF s.failed \/ (deviceNumQubits # 0 /\ n > deviceNumQubits)
          THEN fail /\ UNCHANGED device
          ELSE /\ device' = d
               /\ IF m = 0 \/ hasFewerQubits(n, m)
                  THEN fail
                  ELSE \E a \in {addAuxiliary([ops |-> ops, sources |-> s.sources,
                                               wireToVirtualQ |-> s.wireToVirtualQ], m)} :
                          /\ ops' = a.ops
                          /\ blockOrder' =
                               insertAfter(blockOrder, s.sources[Len(s.sources)],
                                           SubSeq(a.sources, n + 1, Len(a.sources)))
                          /\ sources' = a.sources
                          /\ wireToVirtualQ' = a.wireToVirtualQ
                          /\ numOrigQubits' = n
                          /\ passFailed' = (blockError \/ opt.failed)
                          /\ pc' = "place"
  /\ UNCHANGED <<input, placementAtStall, deviceOption, numBlocks, placement, phyDecay, phyToWire, frontLayer,
                 extendedLayer, measureLayer, measureLayerSet, involvedPhy, visited,
                 allowMeasurementMapping, numSwapSearches, candidates, cost,
                 mapping_v2p, swapLog, retired, waited>>

NotEntered == [entered |-> FALSE, blocked |-> FALSE, swapped |-> FALSE]

\* Placement placement(...); identityPlacement(placement); SabreRouter router(...)
Place ==
  /\ pc = "place"
  /\ LET m == BuildDevice(device).numQubits
     IN /\ placement' = identityPlacement(NewPlacement(Len(sources), m))
        /\ phyDecay' = [p \in 0..(m - 1) |-> initialDecay]
        /\ phyToWire' = [p \in 0..(m - 1) |-> <<0, 0>>]
  /\ visited' = [i \in 1..Len(ops) |-> 0]
  /\ retired' = [i \in 1..Len(ops) |-> <<>>]
  /\ waited' = [i \in 1..Len(ops) |-> NotEntered]
  /\ pc' = "route"
  /\ UNCHANGED <<input, blockOrder, placementAtStall, deviceOption, numBlocks, device, ops, sources, numOrigQubits,
                 wireToVirtualQ, frontLayer, extendedLayer, measureLayer,
                 measureLayerSet, involvedPhy, allowMeasurementMapping,
                 numSwapSearches, candidates, cost, passFailed, mapping_v2p, swapLog>>

(***************************************************************************)
(* SabreRouter.                                                            *)
(***************************************************************************)
areConnected(dev, p, q) == Contains(BuildDevice(dev).neighbours[p], q)
getDistance(dev, p, q) == BuildDevice(dev).distance[p][q]
getNeighbours(dev, p) == BuildDevice(dev).neighbours[p]

VirtualOp(id, qubits) == [op |-> id, qubits |-> qubits]

\* variant: measurements are never held back
isDeferredNever(allow, op) == FALSE

\* "Don't process measurements until we're ready"
isDeferred(allow, op) == ~allow /\ hasQuantumMeasureTrait(op)

\* variant: the set of recorded measurements is not consulted
isRecordedNever(mSet, user) == FALSE

\* "Don't add duplicates": measureLayerSet.find(user) != measureLayerSet.end()
isRecorded(mSet, user) == user \in mSet

\* variant: ready at the first visit
isReadyOnFirstVisit(count, wires) == count = 1

\* entry->second == wires.size(): the op was reached through all its wires
isReady(count, wires) == count = Len(wires)

\* visitUsers on the router state st = [visited, layer, measureLayer,
\* measureLayerSet, incremented]; `layer` is the layer passed by reference
RECURSIVE visitUsers(_, _, _, _, _)
visitUsers(o, w2v, allow, users, st) ==
  IF users = <<>> THEN st
  ELSE
    LET user == Head(users)
        count == st.visited[user] + 1
        st1 == [st EXCEPT !.visited[user] = count,
                          !.incremented = Append(@, user)]
        wires == getQuantumOperands(o[user])
        qubits == [i \in 1..Len(wires) |-> w2v[wires[i]]]
        st2 ==
          IF ~isSupportedMappingOperation(o[user]) THEN st1
          ELSE IF ~isReady(count, wires) THEN st1
          ELSE IF ~isDeferred(allow, o[user])
            THEN [st1 EXCEPT !.layer = Append(@, VirtualOp(user, qubits))]
          ELSE IF ~isRecorded(st1.measureLayerSet, user)
            THEN [st1 EXCEPT !.measureLayer = Append(@, VirtualOp(user, qubits)),
                             !.measureLayerSet = @ \cup {user}]
          ELSE st1
    IN Eval2(LAMBDA us, s : visitUsers(o, w2v, allow, us, s), Tail(users), st2)

\* variant: no adjacency test at all
isUnmappableNever(dev, op, deviceQubits) == FALSE

\* variant: qubits at distance 2 count as adjacent
isUnmappableBeyondTwo(dev, op, deviceQubits) ==
  /\ ~hasQuantumMeasureTrait(op)
  /\ Len(deviceQubits) = 2
  /\ getDistance(dev, deviceQubits[1], deviceQubits[2]) > 2

\* variant: the adjacency test inverted
isUnmappableInverted(dev, op, deviceQubits) ==
  /\ ~hasQuantumMeasureTrait(op)
  /\ Len(deviceQubits) = 2
  /\ areConnected(dev, deviceQubits[1], deviceQubits[2])

\* variant: measurements are held to the adjacency test as well
isUnmappableMeasurementsToo(dev, op, deviceQubits) ==
  /\ Len(deviceQubits) = 2
  /\ ~areConnected(dev, deviceQubits[1], deviceQubits[2])

\* mapOperation: the operation cannot be mapped on these device qubits
isUnmappable(dev, op, deviceQubits) ==
  /\ ~hasQuantumMeasureTrait(op)
  /\ Len(deviceQubits) = 2
  /\ ~areConnected(dev, deviceQubits[1], deviceQubits[2])

\* mapOperation: [ok, ops, phyToWire, deviceQubits]
mapOperation(dev, pl, o, p2w, virtOp) ==
  LET deviceQubits == [i \in 1..Len(virtOp.qubits) |-> getPhy(pl, virtOp.qubits[i])]
      id == virtOp.op
      failure == [ok |-> FALSE, ops |-> o, phyToWire |-> p2w,
                  deviceQubits |-> deviceQubits]
  IN IF isUnmappable(dev, o[id], deviceQubits)
     THEN failure
     ELSE
       LET newOpWires == [i \in 1..Len(deviceQubits) |-> p2w[deviceQubits[i]]]
           o2 == [o EXCEPT ![id].ins = newOpWires]
           results == getQuantumResults(id, o2[id])
           p2w2 == [p \in DOMAIN p2w |->
                      IF \E i \in 1..Len(results) : deviceQubits[i] = p
                      THEN results[CHOOSE i \in 1..Len(results) :
                                     /\ deviceQubits[i] = p
                                     /\ \A j \in (i + 1)..Len(results) :
                                          deviceQubits[j] # p]
                      ELSE p2w[p]]
       IN [ok |-> TRUE, ops |-> o2,
           phyToWire |-> IF o[id].kind = "sink" THEN p2w ELSE p2w2,
           deviceQubits |-> deviceQubits]

\* llvm::SmallSet::insert: insertion order while small, sorted once large
RECURSIVE SortedInsert(_, _)
SortedInsert(s, x) ==
  IF s = <<>> THEN <<x>>
  ELSE IF x < Head(s) THEN <<x>> \o s
  ELSE <<Head(s)>> \o Eval(LAMBDA t : SortedInsert(t, x), Tail(s))

RECURSIVE SortAscending(_)
SortAscending(s) ==
  IF s = <<>> THEN <<>> ELSE Eval(LAMBDA t : SortedInsert(t, Head(s)), SortAscending(Tail(s)))

SmallSetInsert(s, x) ==
  IF Contains(s, x) THEN s
  ELSE IF Len(s) < smallSetSize THEN Append(s, x)
  ELSE SortAscending(Append(s, x))

RECURSIVE SmallSetInsertAll(_, _)
SmallSetInsertAll(s, xs) ==
  IF xs = <<>> THEN s
  ELSE Eval2(LAMBDA t, rest : SmallSetInsertAll(t, rest), SmallSetInsert(s, Head(xs)), Tail(xs))

\* variant: only the first device qubit of a failed op is recorded
keepFailedFirstQubitOnly(st, virtOp, phys) ==
  [st EXCEPT !.layer = Append(@, virtOp),
             !.involvedPhy = SmallSetInsert(@, phys[1])]

\* mapOperation failed: newFrontLayer.push_back(virtOp) and involvedPhy.insert
\* of each of its device qubits
keepFailed(st, virtOp, phys) ==
  [st EXCEPT !.layer = Append(@, virtOp),
             !.involvedPhy = SmallSetInsertAll(@, phys)]

\* the loop of mapFrontLayer over frontLayer[i..]; st = the router state of
\* visitUsers (layer = newFrontLayer) with ops, phyToWire, involvedPhy,
\* mappedAtLeastOne and the history of the retirements
RECURSIVE mapFrontLayerFrom(_, _, _, _, _, _, _)
mapFrontLayerFrom(dev, pl, w2v, allow, front, i, st) ==
  IF i > Len(front) THEN st
  ELSE
    LET virtOp == front[i]
        r == mapOperation(dev, pl, st.ops, st.phyToWire, virtOp)
        phys == [k \in 1..Len(virtOp.qubits) |-> getPhy(pl, virtOp.qubits[k])]
        st2 ==
          IF ~r.ok
          THEN keepFailed(st, virtOp, phys)
          ELSE LET a == [st EXCEPT !.ops = r.ops,
                                   !.phyToWire = r.phyToWire,
                                   !.mappedAtLeastOne = TRUE,
                                   !.retired[virtOp.op] =
                                      Append(@, [phys |-> r.deviceQubits,
                                                 swapped |-> st.waited[virtOp.op].swapped,
                                                 seq |-> Sum([k \in DOMAIN st.retired |->
                                                                Len(st.retired[k])])])]
               IN Eval(LAMBDA s : visitUsers(s.ops, w2v, allow,
                                             getUsers(s.ops, virtOp.op), s), a)
    IN Eval(LAMBDA s : mapFrontLayerFrom(dev, pl, w2v, allow, front, i + 1, s), st2)

mapFrontLayer(dev, pl, w2v, allow, front, st) ==
  mapFrontLayerFrom(dev, pl, w2v, allow, front, 1, st)

\* the ops of `front` marked as entered, blocked when mapOperation would fail
Entered(dev, pl, o, w, front) ==
  [id \in DOMAIN w |->
     IF w[id].entered \/ ~\E i \in 1..Len(front) : front[i].op = id THEN w[id]
     ELSE LET virtOp == front[CHOOSE i \in 1..Len(front) : front[i].op = id]
          IN [entered |-> TRUE,
              blocked |-> /\ ~hasQuantumMeasureTrait(o[id])
                          /\ Len(virtOp.qubits) = 2
                          /\ ~areConnected(dev, getPhy(pl, virtOp.qubits[1]),
                                           getPhy(pl, virtOp.qubits[2])),
              swapped |-> FALSE]]

RouterState ==
  [visited |-> visited, layer |-> <<>>, measureLayer |-> measureLayer,
   measureLayerSet |-> measureLayerSet, incremented |-> <<>>, ops |-> ops,
   phyToWire |-> phyToWire, involvedPhy |-> involvedPhy,
   mappedAtLeastOne |-> FALSE, retired |-> retired, waited |-> waited]

\* route, before the loop: the users of the sources enter the front layer
RECURSIVE routeSources(_, _, _, _, _, _)
routeSources(o, w2v, allow, pl, srcs, st) ==
  IF srcs = <<>> THEN st
  ELSE LET nullWire == Head(srcs)
           a == visitUsers(o, w2v, allow, getUsers(o, nullWire), st)
           wire == <<nullWire, 1>>
           phy == getPhy(pl, w2v[wire])
       IN Eval2(LAMBDA rest, s : routeSources(o, w2v, allow, pl, rest, s),
                Tail(srcs), [a EXCEPT !.phyToWire[phy] = wire])

RouteInit ==
  /\ pc = "route"
  /\ LET st == routeSources(ops, wireToVirtualQ, allowMeasurementMapping, placement,
                            sources, [RouterState EXCEPT !.layer = frontLayer])
     IN /\ frontLayer' = st.layer
        /\ visited' = st.visited
        /\ measureLayer' = st.measureLayer
        /\ measureLayerSet' = st.measureLayerSet
        /\ phyToWire' = st.phyToWire
        /\ waited' = Entered(device, placement, ops, waited, st.layer)
  /\ pc' = "loop"
  /\ UNCHANGED <<input, blockOrder, placementAtStall, deviceOption, numBlocks, device, ops, sources, numOrigQubits,
                 wireToVirtualQ, placement, phyDecay, extendedLayer, involvedPhy,
                 allowMeasurementMapping, numSwapSearches, candidates, cost,
                 passFailed, mapping_v2p, swapLog, retired>>

\* variant: done the first time the front layer is empty
isDoneAtOnce(allow) == TRUE

\* if (allowMeasurementMapping) done = true
isDone(allow) == allow

\* while (!done): the front layer is empty
LoopEmptyFront ==
  /\ pc = "loop"
  /\ frontLayer = <<>>
  /\ IF isDone(allowMeasurementMapping)
     THEN /\ pc' = "routed"
          /\ UNCHANGED <<allowMeasurementMapping, frontLayer, measureLayer, waited>>
     ELSE /\ allowMeasurementMapping' = TRUE
          /\ frontLayer' = measureLayer
          /\ measureLayer' = <<>>
          /\ waited' = Entered(device, placement, ops, waited, measureLayer)
          /\ pc' = "loop"
  /\ UNCHANGED <<input, blockOrder, placementAtStall, deviceOption, numBlocks, device, ops, sources, numOrigQubits,
                 wireToVirtualQ, placement, phyDecay, phyToWire, extendedLayer,
                 measureLayerSet, involvedPhy, visited, numSwapSearches,
                 candidates, cost, passFailed, mapping_v2p, swapLog, retired>>

\* variant: mapFrontLayer reports failure whatever it mapped
mapFrontLayerFailure(mappedAtLeastOne) == FALSE

\* return mappedAtLeastOne ? success() : failure()
mapFrontLayerSucceeded(mappedAtLeastOne) == mappedAtLeastOne

\* while (!done): mapFrontLayer()
MapFrontLayer ==
  /\ pc = "loop"
  /\ frontLayer # <<>>
  /\ LET st == mapFrontLayer(device, placement, wireToVirtualQ,
                             allowMeasurementMapping, frontLayer, RouterState)
     IN /\ frontLayer' = st.layer
        /\ ops' = st.ops
        /\ phyToWire' = st.phyToWire
        /\ visited' = st.visited
        /\ measureLayer' = st.measureLayer
        /\ measureLayerSet' = st.measureLayerSet
        /\ involvedPhy' = st.involvedPhy
        /\ retired' = st.retired
        /\ waited' = Entered(device, placement, st.ops, waited, st.layer)
        /\ pc' = IF mapFrontLayerSucceeded(st.mappedAtLeastOne) THEN "loop"
                 ELSE "chooseSwap"
  /\ UNCHANGED <<input, blockOrder, placementAtStall, deviceOption, numBlocks, device, sources, numOrigQubits,
                 wireToVirtualQ, placement, phyDecay, extendedLayer,
                 allowMeasurementMapping, numSwapSearches, candidates, cost,
                 passFailed, mapping_v2p, swapLog>>

\* one pass of selectExtendedLayer over tmpLayer[i..]; st.layer = newTmpLayer
RECURSIVE visitLayer(_, _, _, _, _, _)
visitLayer(o, w2v, allow, tmpLayer, i, st) ==
  IF i > Len(tmpLayer) THEN st
  ELSE Eval(LAMBDA s : visitLayer(o, w2v, allow, tmpLayer, i + 1, s),
            visitUsers(o, w2v, allow, getUsers(o, tmpLayer[i].op), st))

\* variant: the number of operands is not looked at
influencesPlacementAnyCount(o, virtOp) == ~hasQuantumMeasureTrait(o[virtOp.op])

\* "quantum operators that use two qubits"
influencesPlacement(o, virtOp) ==
  ~hasQuantumMeasureTrait(o[virtOp.op]) /\ Len(getQuantumOperands(o[virtOp.op])) = 2

RECURSIVE selectExtendedLoop(_, _, _, _, _)
selectExtendedLoop(o, w2v, allow, tmpLayer, st) ==
  IF tmpLayer = <<>> \/ Len(st.extendedLayer) >= extendedLayerSize THEN st
  ELSE LET a == visitLayer(o, w2v, allow, tmpLayer, 1, [st EXCEPT !.layer = <<>>])
           newTmpLayer == a.layer
           b == [a EXCEPT !.extendedLayer =
                   @ \o SelectSeq(newTmpLayer, LAMBDA v : influencesPlacement(o, v))]
       IN Eval(LAMBDA s : selectExtendedLoop(o, w2v, allow, s.layer, s), b)

\* variant: each op the lookahead visited is taken back once, however many
\* times it was visited
undoIncrementsOnce(vis, incremented) ==
  [id \in DOMAIN vis |-> IF Contains(incremented, id) THEN vis[id] - 1 ELSE vis[id]]

\* variant: the visit counts of the lookahead are not taken back
undoIncrementsMissing(vis, incremented) == vis

RECURSIVE undoIncrements(_, _)
undoIncrements(vis, incremented) ==
  IF incremented = <<>> THEN vis
  ELSE Eval2(LAMBDA v, rest : undoIncrements(v, rest),
             [vis EXCEPT ![Head(incremented)] = @ - 1], Tail(incremented))

\* selectExtendedLayer: [extendedLayer, visited, measureLayer, measureLayerSet]
selectExtendedLayer(o, w2v, allow, front, vis, mLayer, mSet) ==
  LET st == selectExtendedLoop(o, w2v, allow, front,
              [visited |-> vis, layer |-> <<>>, measureLayer |-> mLayer,
               measureLayerSet |-> mSet, incremented |-> <<>>,
               extendedLayer |-> <<>>])
  IN Eval(LAMBDA s : [extendedLayer |-> s.extendedLayer,
                       visited |-> undoIncrements(s.visited, s.incremented),
                       measureLayer |-> s.measureLayer,
                       measureLayerSet |-> s.measureLayerSet], st)

\* computeLayerCost, as the fraction cost / layer.size()
computeLayerCost(dev, pl, layer) ==
  <<Sum([i \in 1..Len(layer) |->
           getDistance(dev, getPhy(pl, layer[i].qubits[1]),
                       getPhy(pl, layer[i].qubits[2])) - 1]),
    Len(layer)>>

Max(a, b) == IF a >= b THEN a ELSE b

\* the cost of one candidate, on the placement with the candidate applied
swapCostOf(dev, pl, front, ext, decay, cand) ==
  LET frontCost == computeLayerCost(dev, pl, front)
      maxDecay == <<Max(decay[cand[1]], decay[cand[2]]), initialDecay>>
      swapCost ==
        IF ext # <<>>
        THEN LET extendedLayerCost == RatDivInt(computeLayerCost(dev, pl, ext), Len(ext))
             IN RatAdd(RatDivInt(frontCost, Len(front)),
                       RatMul(extendedLayerWeight, extendedLayerCost))
        ELSE frontCost
  IN RatMul(maxDecay, swapCost)

RECURSIVE Orderings(_)
Orderings(s) ==
  IF s = <<>> THEN {<<>>}
  ELSE UNION {{<<s[i]>> \o t :
                 t \in Orderings([j \in 1..(Len(s) - 1) |->
                                       IF j < i THEN s[j] ELSE s[j + 1]])} :
              i \in 1..Len(s)}

\* variant: a container whose iteration order is not fixed by its contents
IterationOrdersUnordered(involved) == Orderings(involved)

\* the orders in which a range-for over involvedPhy can yield its elements
IterationOrders(involved) == {involved}

\* variant: no candidate at all
swapCandidatesNone(dev, order) == <<>>

\* variant: only the first involved qubit yields candidates
swapCandidatesOfFirst(dev, order) ==
  LET nb == getNeighbours(dev, order[1])
  IN [j \in 1..Len(nb) |-> <<order[1], nb[j]>>]

\* the candidate list: for each involved qubit, its neighbours in turn
swapCandidates(dev, order) ==
  Concat([i \in 1..Len(order) |->
            LET nb == getNeighbours(dev, order[i])
            IN [j \in 1..Len(nb) |-> <<order[i], nb[j]>>]])

\* the index of the first minimal cost
RECURSIVE minIndexFrom(_, _, _)
minIndexFrom(c, i, minIdx) ==
  IF i > Len(c) THEN minIdx
  ELSE Eval(LAMBDA m : minIndexFrom(c, i + 1, m),
            IF RatLess(c[i], c[minIdx]) THEN i ELSE minIdx)

\* variant: the last of the minimal costs
minIndexLast(c) ==
  CHOOSE m \in DOMAIN c :
    /\ \A i \in DOMAIN c : ~RatLess(c[i], c[m])
    /\ \A i \in DOMAIN c : i > m => RatLess(c[m], c[i])

minIndex(c) == minIndexFrom(c, 2, 1)

\* numSwapSearches += 1; above SwapCap the counter is kept within its residue
\* class modulo roundsDecayReset, which is all the router reads of it
nextSwapSearches(n) ==
  IF n + 1 > SwapCap + roundsDecayReset THEN n + 1 - roundsDecayReset ELSE n + 1

\* chooseSwap: candidates and the extended layer
ChooseSwapBegin ==
  /\ pc = "chooseSwap"
  /\ numSwapSearches' = nextSwapSearches(numSwapSearches)
  /\ \E order \in IterationOrders(involvedPhy) :
       candidates' = swapCandidates(device, order)
  /\ cost' = <<>>
  /\ placementAtStall' = placement
  /\ IF extendedLayerSize # 0
     THEN LET e == selectExtendedLayer(ops, wireToVirtualQ, allowMeasurementMapping,
                                       frontLayer, visited, measureLayer,
                                       measureLayerSet)
          IN /\ extendedLayer' = e.extendedLayer
             /\ visited' = e.visited
             /\ measureLayer' = e.measureLayer
             /\ measureLayerSet' = e.measureLayerSet
     ELSE UNCHANGED <<extendedLayer, visited, measureLayer, measureLayerSet>>
  /\ pc' = IF candidates' = <<>> THEN "pick" ELSE "swapTry"
  /\ UNCHANGED <<input, blockOrder, deviceOption, numBlocks, device, ops, sources, numOrigQubits,
                 wireToVirtualQ, placement, phyDecay, phyToWire, frontLayer,
                 involvedPhy, allowMeasurementMapping, passFailed, mapping_v2p,
                 swapLog, retired, waited>>

\* chooseSwap: placement.swap(phy0, phy1) and the cost of the candidate
TrySwap ==
  /\ pc = "swapTry"
  /\ LET cand == candidates[Len(cost) + 1]
         pl == PlacementSwap(placement, cand[1], cand[2])
     IN /\ placement' = pl
        /\ cost' = Append(cost, swapCostOf(device, pl, frontLayer, extendedLayer,
                                            phyDecay, cand))
  /\ pc' = "swapUndo"
  /\ UNCHANGED <<input, blockOrder, placementAtStall, deviceOption, numBlocks, device, ops, sources, numOrigQubits,
                 wireToVirtualQ, phyDecay, phyToWire, frontLayer, extendedLayer,
                 measureLayer, measureLayerSet, involvedPhy, visited,
                 allowMeasurementMapping, numSwapSearches, candidates, passFailed,
                 mapping_v2p, swapLog, retired, waited>>

\* variant: the tentative swap is not taken back
revertSwapMissing(pl, cand) == pl

\* the tentative swap of the candidate just costed, taken back
revertSwap(pl, cand) == PlacementSwap(pl, cand[1], cand[2])

\* chooseSwap: placement.swap(phy0, phy1) again
UndoSwap ==
  /\ pc = "swapUndo"
  /\ placement' = revertSwap(placement, candidates[Len(cost)])
  /\ pc' = IF Len(cost) < Len(candidates) THEN "swapTry" ELSE "pick"
  /\ UNCHANGED <<input, blockOrder, placementAtStall, deviceOption, numBlocks, device, ops, sources, numOrigQubits,
                 wireToVirtualQ, phyDecay, phyToWire, frontLayer, extendedLayer,
                 measureLayer, measureLayerSet, involvedPhy, visited,
                 allowMeasurementMapping, numSwapSearches, candidates, cost,
                 passFailed, mapping_v2p, swapLog, retired, waited>>

\* the id of the next quake.swap op; the swaps past SwapCap share one id
nextSwapId(log) == 0 - (IF Len(log) < SwapCap THEN Len(log) + 1 ELSE SwapCap + 1)

\* variant: the swap op is created but the placement is not swapped
addSwapNotPlaced(pl, p2w, log, q0, q1) ==
  LET id == nextSwapId(log)
  IN [placement |-> pl,
      swap |-> [q0 |-> q0, q1 |-> q1, ins |-> <<p2w[q0], p2w[q1]>>],
      phyToWire |-> [p2w EXCEPT ![q0] = <<id, 1>>, ![q1] = <<id, 2>>]]

\* addSwap: [placement, phyToWire, swap]
addSwap(pl, p2w, log, q0, q1) ==
  LET id == nextSwapId(log)
  IN [placement |-> PlacementSwap(pl, q0, q1),
      swap |-> [q0 |-> q0, q1 |-> q1, ins |-> <<p2w[q0], p2w[q1]>>],
      phyToWire |-> [p2w EXCEPT ![q0] = <<id, 1>>, ![q1] = <<id, 2>>]]

\* variant: the decay weights are reset on every 10th swap
updateDecayResetLate(decay, n, phy0, phy1) ==
  IF n % (2 * roundsDecayReset) = 0 THEN [p \in DOMAIN decay |-> initialDecay]
  ELSE [decay EXCEPT ![phy0] = @ + decayDelta, ![phy1] = @ + decayDelta]

\* variant: the decay weights are never reset
updateDecayNoReset(decay, n, phy0, phy1) ==
  [decay EXCEPT ![phy0] = @ + decayDelta, ![phy1] = @ + decayDelta]

\* the decay update after swap number n on (phy0, phy1)
updateDecay(decay, n, phy0, phy1) ==
  IF n % roundsDecayReset = 0 THEN [p \in DOMAIN decay |-> initialDecay]
  ELSE [decay EXCEPT ![phy0] = @ + decayDelta, ![phy1] = @ + decayDelta]

\* chooseSwap returns candidates[minIdx]; addSwap; involvedPhy.clear(); decay
PickSwap ==
  /\ pc = "pick"
  /\ candidates # <<>>
  /\ LET chosen == candidates[minIndex(cost)]
         a == addSwap(placement, phyToWire, swapLog, chosen[1], chosen[2])
     IN /\ placement' = a.placement
        /\ phyToWire' = a.phyToWire
        /\ swapLog' = IF Len(swapLog) < SwapCap THEN Append(swapLog, a.swap) ELSE swapLog
        /\ phyDecay' = updateDecay(phyDecay, numSwapSearches, chosen[1], chosen[2])
  /\ involvedPhy' = <<>>
  /\ waited' = [id \in DOMAIN waited |->
                  IF \E i \in 1..Len(frontLayer) : frontLayer[i].op = id
                  THEN [waited[id] EXCEPT !.swapped = TRUE] ELSE waited[id]]
  /\ pc' = "loop"
  /\ UNCHANGED <<input, blockOrder, placementAtStall, deviceOption, numBlocks, device, ops, sources, numOrigQubits,
                 wireToVirtualQ, frontLayer, extendedLayer, measureLayer,
                 measureLayerSet, visited, allowMeasurementMapping, numSwapSearches,
                 candidates, cost, passFailed, mapping_v2p, retired>>

(***************************************************************************)
(* Mapper::runOnOperation after the routing: unused auxiliary qubits are   *)
(* erased from the end, the mapping is published.                          *)
(***************************************************************************)
\* sources[i]->getUsers().empty(), the swaps created by addSwap included
hasNoUsers(o, log, id) ==
  /\ getUsers(o, id) = <<>>
  /\ \A k \in 1..Len(log) : ~Contains(log[k].ins, <<id, 1>>)

\* variant: every unused auxiliary qubit is erased, wherever it is
eraseUnusedAnywhere(o, log, srcs, numOrig, i) ==
  [id \in DOMAIN o |->
     IF \E k \in (numOrig + 1)..i : srcs[k] = id /\ hasNoUsers(o, log, id)
     THEN [o[id] EXCEPT !.kind = "erased"] ELSE o[id]]

\* the loop over sources[i], i (counted from 1) going down to numOrig + 1
RECURSIVE eraseUnused(_, _, _, _, _)
eraseUnused(o, log, srcs, numOrig, i) ==
  IF i <= numOrig THEN o
  ELSE IF hasNoUsers(o, log, srcs[i])
    THEN Eval(LAMBDA e : eraseUnused(e, log, srcs, numOrig, i - 1),
              [o EXCEPT ![srcs[i]].kind = "erased"])
  ELSE o

\* variant: one entry per source, the auxiliary ones included
publishedMapAllSources(pl, numOrig) == [v \in DOMAIN pl.vrToPhy |-> getPhy(pl, v)]

publishedMap(pl, numOrig) == [v \in 0..(numOrig - 1) |-> getPhy(pl, v)]

Finalize ==
  /\ pc = "routed"
  /\ ops' = eraseUnused(ops, swapLog, sources, numOrigQubits, Len(sources))
  /\ blockOrder' = SelectSeq(blockOrder, LAMBDA id : ops'[id].kind # "erased")
  /\ mapping_v2p' = [present |-> TRUE, value |-> publishedMap(placement, numOrigQubits)]
  /\ pc' = "exit"
  /\ UNCHANGED <<input, placementAtStall, deviceOption, numBlocks, device, sources, numOrigQubits,
                 wireToVirtualQ, placement, phyDecay, phyToWire, frontLayer,
                 extendedLayer, measureLayer, measureLayerSet, involvedPhy, visited,
                 allowMeasurementMapping, numSwapSearches, candidates, cost,
                 passFailed, swapLog, retired, waited>>

Next ==
  \/ Preflight
  \/ Place
  \/ RouteInit
  \/ LoopEmptyFront
  \/ MapFrontLayer
  \/ ChooseSwapBegin
  \/ TrySwap
  \/ UndoSwap
  \/ PickSwap
  \/ Finalize

Spec == Init /\ [][Next]_vars

\* The pass is one synchronous call: it keeps running until it returns.  The
\* runs checked for termination are those of the scenarios.
ScenarioInit == InitFrom(ScenarioInputs)
FairSpec == ScenarioInit /\ [][Next]_vars /\ WF_vars(Next)

TypeOK ==
  /\ pc \in {"start", "place", "route", "loop", "chooseSwap", "swapTry", "swapUndo",
              "pick", "routed", "exit"}
  /\ passFailed \in BOOLEAN

(***************************************************************************)
(* Properties.                                                             *)
(***************************************************************************)
Routing == pc \in {"route", "loop", "chooseSwap", "swapTry", "swapUndo", "pick", "routed"}
Succeeded == pc = "exit" /\ mapping_v2p.present
PhysicalQubits == 0..(BuildDevice(device).numQubits - 1)
\* the program ops of the block (neither sources nor auxiliary qubits)
ProgramOps == (input.n + 1)..(input.n + Len(input.prog))
OpKind(id) == input.prog[id - input.n].kind
OpQubits(id) == input.prog[id - input.n].qs
\* the block as it was handed to the pass
InitialOps == Block(input.n, input.prog)
\* the op is supported and so is every op before it on each of its wires: the
\* router's visits, which start at the sources and stop at an unsupported op,
\* arrive at it
RECURSIVE Reached(_)
Reached(id) ==
  /\ isSupportedMappingOperation(InitialOps[id])
  /\ \A i \in DOMAIN InitialOps[id].ins :
       LET before == InitialOps[id].ins[i][1]
       IN InitialOps[before].kind = "null_wire" \/ Reached(before)
ReachedOps == {id \in ProgramOps : Reached(id)}

\* C1: from the identity seeding on, through every tentative swap, its revert
\* and every applied swap, Placement is a bijection:
\* getPhy(getVr(p)) = p for every device qubit p (and getVr(getPhy(v)) = v).
C1_Bijection ==
  (Routing \/ Succeeded) =>
    /\ \A p \in PhysicalQubits :
         /\ getVr(placement, p) \in DOMAIN placement.vrToPhy
         /\ getPhy(placement, getVr(placement, p)) = p
    /\ \A v \in DOMAIN placement.vrToPhy :
         /\ getPhy(placement, v) \in PhysicalQubits
         /\ getVr(placement, getPhy(placement, v)) = v

\* a tentative swap is in force on a placement that applied swaps have changed
C1_Witness ==
  /\ pc = "swapUndo"
  /\ Len(swapLog) >= 2
  /\ placement # placementAtStall
  /\ \E v \in DOMAIN placementAtStall.vrToPhy : getPhy(placementAtStall, v) # v

\* C2: a two-qubit non-measurement operation is only ever retired onto two
\* distinct device qubits that are adjacent in the device graph.
C2_RetiredAdjacent ==
  Routing \/ Succeeded =>
    \A id \in ProgramOps : \A k \in DOMAIN retired[id] :
      (ops[id].kind # "mz" /\ Len(retired[id][k].phys) = 2) =>
        /\ retired[id][k].phys[1] # retired[id][k].phys[2]
        /\ areConnected(device, retired[id][k].phys[1], retired[id][k].phys[2])

\* a two-qubit gate retired after swaps, on qubits other than its virtual ones
C2_Witness ==
  /\ Routing
  /\ \E id \in ProgramOps :
       /\ ops[id].kind = "g2"
       /\ retired[id] # <<>>
       /\ retired[id][1].swapped
       /\ retired[id][1].phys # OpQubits(id)

\* C3: on an accepted circuit every measurement of virtual qubit v is
\* rewritten onto the device qubit the published map gives for v.
C3_MeasuredWhereMapped ==
  (Succeeded /\ ~passFailed) =>
    \A id \in ProgramOps : \A k \in DOMAIN retired[id] :
      OpKind(id) = "mz" =>
        retired[id][k].phys[1] = mapping_v2p.value[OpQubits(id)[1]]

\* C4: the published map has one entry per original virtual qubit, none for
\* an auxiliary one; entry v is the device qubit holding v when routing ended;
\* the entries are distinct device qubits.
C4_PublishedMap ==
  (Succeeded /\ ~passFailed) =>
    LET m == mapping_v2p.value
    IN /\ DOMAIN m = 0..(input.n - 1)
       /\ \A v \in DOMAIN m : m[v] = getPhy(placement, v) /\ m[v] \in PhysicalQubits
       /\ \A v, w \in DOMAIN m : m[v] = m[w] => v = w

\* a map published for fewer qubits than the device has, after swaps
C4_Witness ==
  /\ Succeeded
  /\ Len(sources) > input.n
  /\ swapLog # <<>>
  /\ \E v \in DOMAIN mapping_v2p.value : mapping_v2p.value[v] # v

\* the device the option and the number of declared qubits lead to
ConstructedDevice ==
  buildFrom(deviceDims(parseDeviceOption(input.option), input.n))

\* every device qubit can be reached from every other
IsConnected(d) ==
  \A p, q \in 0..(DeviceSize(d) - 1) : getDistance(d, p, q) # Unreachable

\* C5: on a connected device the routing loop terminates: the pass returns.
C5_Terminates == IsConnected(ConstructedDevice) => <>(pc = "exit")

\* C6: no operation is ever retired twice, and when routing completes every
\* supported operation of the program that the router reaches from the sources
\* has been retired exactly once and the front and measure layers are empty.
C6_RetiredOnce ==
  /\ (Routing \/ Succeeded) => \A id \in ProgramOps : Len(retired[id]) <= 1
  /\ (pc = "routed" \/ Succeeded) =>
       /\ \A id \in ReachedOps : Len(retired[id]) = 1
       /\ frontLayer = <<>>
       /\ measureLayer = <<>>

\* routing completed after a stall, with a measurement and a gate retired
C6_Witness ==
  /\ pc = "routed"
  /\ swapLog # <<>>
  /\ \E id \in ProgramOps : OpKind(id) = "mz" /\ Len(retired[id]) = 1
  /\ \E id \in ProgramOps : OpKind(id) = "g2" /\ Len(retired[id]) = 1

\* the choice chooseSwap makes when involvedPhy is iterated in `order`
swapChoice(order) ==
  LET c == swapCandidates(device, order)
      costs == [i \in 1..Len(c) |->
                  swapCostOf(device, PlacementSwap(placement, c[i][1], c[i][2]),
                             frontLayer, extendedLayer, phyDecay, c[i])]
  IN [candidates |-> c, cost |-> costs, chosen |-> c[minIndex(costs)]]

C8_SwapInvolution ==
  Routing =>
    /\ \A p, q \in PhysicalQubits :
         PlacementSwap(PlacementSwap(placement, p, q), p, q) = placement
    /\ pc \in {"swapTry", "pick"} => placement = placementAtStall
    /\ pc = "swapUndo" =>
         /\ placement # placementAtStall
         /\ placement = PlacementSwap(placementAtStall, candidates[Len(cost)][1],
                                       candidates[Len(cost)][2])

\* every candidate of a stall tried and reverted, after an earlier swap
C8_Witness ==
  /\ pc = "pick"
  /\ Len(cost) = Len(candidates)
  /\ Len(candidates) >= 4
  /\ swapLog # <<>>

RingOfFour == Dev("ring", 4, 0)
RingScenario ==
  input = Input(Option(RingOfFour), 4, <<Gate("g2", <<0, 2>>)>>, 1)

\* C9: a two-qubit gate that enters the front layer on non-adjacent device
\* qubits is retired only after a swap was added, and on adjacent qubits; on
\* the ring of 4 with the single gate (0, 2) at least one swap is added.
C9_SwapBeforeBlockedGate ==
  /\ (Routing \/ Succeeded) =>
       \A id \in ProgramOps :
         (waited[id].blocked /\ retired[id] # <<>>) =>
           /\ retired[id][1].swapped
           /\ swapLog # <<>>
           /\ areConnected(device, retired[id][1].phys[1], retired[id][1].phys[2])
  /\ (RingScenario /\ pc \in {"loop", "chooseSwap", "swapTry", "swapUndo", "pick",
                                "routed", "exit"}) =>
       /\ waited[5].entered /\ waited[5].blocked
       /\ pc \in {"routed", "exit"} => retired[5] # <<>>

\* the ring scenario has run to its end
C9_Witness ==
  /\ RingScenario
  /\ Succeeded
  /\ retired[5] # <<>>
  /\ swapLog # <<>>

\* every two-qubit gate of the program is on adjacent qubits under the identity
AdjacentUnderIdentity ==
  \A i \in DOMAIN input.prog :
    input.prog[i].kind = "g2" =>
      areConnected(device, input.prog[i].qs[1], input.prog[i].qs[2])

PathOfTwo == Dev("path", 2, 0)
PathScenario ==
  input = Input(Option(PathOfTwo), 2, <<Gate("g2", <<0, 1>>)>>, 1)

\* C10: when every two-qubit gate is adjacent under the identity placement,
\* no mapping attempt fails, no swap is added, the placement stays the
\* identity and the published map is the identity; every call of
\* mapFrontLayer retires all of the front layer (so on the path of 2 the
\* single gate (0, 1) is retired by the first call).
C10_NoSwapWhenAdjacent ==
  /\ []((Routing \/ Succeeded) /\ AdjacentUnderIdentity =>
          /\ swapLog = <<>>
          /\ numSwapSearches = 0
          /\ involvedPhy = <<>>
          /\ pc \notin {"chooseSwap", "swapTry", "swapUndo", "pick"}
          /\ \A v \in DOMAIN placement.vrToPhy : getPhy(placement, v) = v
          /\ Succeeded => \A v \in DOMAIN mapping_v2p.value : mapping_v2p.value[v] = v)
  /\ [][(pc = "loop" /\ frontLayer # <<>> /\ AdjacentUnderIdentity) =>
          \A i \in 1..Len(frontLayer) :
            /\ retired[frontLayer[i].op] = <<>>
            /\ Len(retired'[frontLayer[i].op]) = 1]_vars
  /\ []((PathScenario /\ pc = "loop" /\ ~allowMeasurementMapping) =>
          \/ frontLayer = <<VirtualOp(3, <<0, 1>>)>> /\ retired[3] = <<>>
          \/ frontLayer = <<>> /\ Len(retired[3]) = 1)

\* the path scenario has run to its end
C10_Witness ==
  /\ PathScenario
  /\ Succeeded
  /\ Len(retired[3]) = 1
  /\ swapLog = <<>>

\* the auxiliary qubits: the sources after the original ones
Ancillas == {sources[i] : i \in (input.n + 1)..Len(sources)}
PositionOf(id) == CHOOSE i \in DOMAIN blockOrder : blockOrder[i] = id

\* C11: with N declared qubits and a device of M >= N qubits, M - N auxiliary
\* qubits with the virtual ids N..M-1 are created right after the last
\* original allocation before routing; if none of them has a user after
\* routing all of them are removed; the published map has the N original
\* entries only.
C11_Ancillas ==
  /\ (pc = "place" \/ Routing \/ Succeeded) =>
       /\ Len(sources) = DeviceSize(device)
       /\ Len(sources) >= input.n
       /\ numOrigQubits = input.n
       /\ \A i \in (input.n + 1)..Len(sources) :
            /\ wireToVirtualQ[<<sources[i], 1>>] = i - 1
            /\ ops[sources[i]].kind \in {"null_wire", "erased"}
            /\ sources[i] \notin 1..(input.n + Len(input.prog))
  /\ (pc = "place" \/ Routing) =>
       \A i \in (input.n + 1)..Len(sources) :
         /\ ops[sources[i]].kind = "null_wire"
         /\ PositionOf(sources[i]) = PositionOf(sources[input.n]) + (i - input.n)
  /\ Succeeded =>
       /\ (\A a \in Ancillas : hasNoUsers(ops, swapLog, a)) =>
            \A a \in Ancillas : ops[a].kind = "erased" /\ ~Contains(blockOrder, a)
       /\ DOMAIN mapping_v2p.value = 0..(input.n - 1)

\* 3 declared qubits on a device of 5: both auxiliary qubits created, unused
\* after a run with a swap, and removed; a map of 3 entries
C11_Witness ==
  /\ Succeeded
  /\ input.n = 3
  /\ DeviceSize(device) = 5
  /\ Cardinality(Ancillas) = 2
  /\ swapLog # <<>>
  /\ \A a \in Ancillas : ops[a].kind = "erased"
  /\ Cardinality(DOMAIN mapping_v2p.value) = 3

\* the circuit is as it was handed to the pass and nothing is published
CircuitUntouched ==
  /\ ops = InitialOps
  /\ blockOrder = [i \in 1..Len(InitialOps) |-> i]
  /\ swapLog = <<>>
  /\ ~mapping_v2p.present
\* the pass has returned with a failure before creating the router
StoppedEarly ==
  /\ pc = "exit"
  /\ passFailed
  /\ CircuitUntouched
  /\ placement = NewPlacement(0, 0)
  /\ \A id \in DOMAIN retired : retired[id] = <<>>
FailsFast == pc = "start" \/ StoppedEarly

\* C12: a function of more than one block makes the driver fail and stop: no
\* auxiliary qubit, no routing, no rewritten operation, no published map.
C12_MultiBlockStops == numBlocks > 1 => FailsFast

\* an unnamed measurement, or an operator on more than two qubits
HasStructuralError ==
  \E i \in DOMAIN input.prog :
    \/ input.prog[i].kind = "mz" /\ ~input.prog[i].named
    \/ input.prog[i].kind \in {"g1", "g2", "g3"} /\ Len(input.prog[i].qs) > 2

\* C13: an operator on more than two qubits or a measurement without a name,
\* anywhere in the block, makes the pre-flight scan fail: the circuit is left
\* as it was, the router is not created, no map is published.
C13_StructuralErrorStops == HasStructuralError => FailsFast

\* the offending op is the last of the block, after a gate that needs a swap
C13_Witness ==
  /\ StoppedEarly
  /\ Len(input.prog) = 2
  /\ input.prog[1].kind = "g2"
  /\ input.prog[2].kind \in {"g3", "mz"}
  /\ HasStructuralError

\* the option's three malformations: a "(" whose ")" is missing at the end, a
\* file option without "(path)", a file option whose path does not exist
MissingClosingParen(option) ==
  Contains(option, "(") /\ option[Len(option)] # ")"
IsFileOption(option) ==
  option # <<>> /\ equals_insensitive_file(option[1])
FileWithoutPath(option) ==
  IsFileOption(option) /\ (Len(option) = 1 \/ option[2] # "(")
FileDoesNotExist(option) ==
  /\ IsFileOption(option) /\ Len(option) > 2
  /\ option[2] = "(" /\ option[Len(option)] = ")"
  /\ ~fileExists(ltrim(SubSeq(option, 3, Len(option) - 1)))
MalformedOption(option) ==
  MissingClosingParen(option) \/ FileWithoutPath(option) \/ FileDoesNotExist(option)

\* C14: a malformed device option (missing ")", file without a path, file
\* that does not exist) ends the pass failed before the auxiliary qubits:
\* nothing is routed, rewritten or published.
C14_MalformedOptionStops == MalformedOption(input.option) => FailsFast

\* the malformed file options do end the pass before routing
MalformedFileOptionStops ==
  (IsFileOption(input.option) /\ MalformedOption(input.option)) => FailsFast

\* the three malformations are those the parse of the option reports
MalformedIsReported ==
  MalformedOption(input.option) => parseDeviceOption(input.option).failed

\* C15: when the constructed device has no qubit (an unknown topology name
\* included) or fewer qubits than the program declares, the pass ends failed
\* before the auxiliary qubits: no null_wire is added, the router is never
\* entered, the circuit is unchanged and no map is published.
C15_SmallDeviceStops ==
  /\ (DeviceSize(ConstructedDevice) = 0 \/ DeviceSize(ConstructedDevice) < input.n)
       => FailsFast
  /\ (pc # "start" /\ DeviceSize(device) < input.n) => StoppedEarly

C15_Witness ==
  /\ StoppedEarly
  /\ input.option = <<"file", "(", "line.txt", ")">>
  /\ input.n = 4 /\ DeviceSize(device) = 3

\* a two-qubit gate whose qubits the identity placement puts in different
\* connected components of the device
DisconnectedPair ==
  \E i \in DOMAIN input.prog :
    /\ input.prog[i].kind = "g2"
    /\ getDistance(ConstructedDevice, input.prog[i].qs[1], input.prog[i].qs[2])
         = Unreachable

\* C16: when a two-qubit gate needs qubits placed in different connected
\* components of the device, the pass ends and is marked failed; the router
\* does not add swaps for ever.
C16_DisconnectedEndsFailed == DisconnectedPair => <>(pc = "exit" /\ passFailed)

\* the option is the name of a generator and nothing else
BareGeneratorName(option) ==
  Len(option) = 1 /\ option[1] \in {"path", "ring", "star", "grid"}

\* the dimension a generator named without dimensions is given
DefaultDim(name, numSources) ==
  IF name = "grid" THEN ISqrt(numSources) ELSE numSources

UnsupportedOps == {id \in ProgramOps : ~isSupportedMappingOperation(InitialOps[id])}
RecognisedOps == ProgramOps \ UnsupportedOps

LayerOps(layer) == {layer[i].op : i \in DOMAIN layer}

\* an unrecognised op is in no layer, is never retired and is left as it was
UnsupportedNeverLayered ==
  (Routing \/ Succeeded) =>
    \A id \in UnsupportedOps :
      /\ id \notin LayerOps(frontLayer) \cup LayerOps(measureLayer)
                     \cup LayerOps(extendedLayer)
      /\ retired[id] = <<>>
      /\ ~waited[id].entered
      /\ ops[id] = InitialOps[id]

\* C18: an op the router does not recognise is in no layer and is left alone,
\* and the routing of the recognised ops still runs to completion: when route
\* returns every recognised op of the program has been retired.
C18_UnsupportedPassedThrough ==
  /\ UnsupportedNeverLayered
  /\ (pc = "routed" \/ Succeeded) =>
       \A id \in RecognisedOps : Len(retired[id]) = 1

\* the ops that precede op id on its input wires, in the block as given
PrecedingOps(id) ==
  {InitialOps[id].ins[i][1] : i \in DOMAIN InitialOps[id].ins} \ (1..input.n)

\* C19: an op is in the front layer, or retired from it, only when it is
\* recognised and its visit count equals its number of qubit operands, and an
\* op with that count is in the front layer, waits in the measure layer or is
\* retired; an op is retired only after every op that precedes it on its input
\* wires: per qubit, in program order.
C19_ReadyInOrder ==
  (Routing \/ Succeeded) =>
    /\ \A id \in ProgramOps :
         /\ (id \in LayerOps(frontLayer) \/ retired[id] # <<>>)
              => (id \in RecognisedOps /\ visited[id] = Len(InitialOps[id].ins))
         /\ (id \in RecognisedOps /\ visited[id] = Len(InitialOps[id].ins))
              => \/ id \in LayerOps(frontLayer) \cup LayerOps(measureLayer)
                 \/ retired[id] # <<>>
    /\ \A id \in ProgramOps :
         retired[id] # <<>> =>
           \A b \in PrecedingOps(id) :
             retired[b] # <<>> /\ retired[b][1].seq < retired[id][1].seq

\* two ops on a common qubit, the second one a gate that had to wait for a
\* swap, both retired
C19_Witness ==
  /\ Succeeded /\ swapLog # <<>>
  /\ \E id \in ProgramOps :
       /\ Len(InitialOps[id].ins) = 2 /\ PrecedingOps(id) # {}
       /\ retired[id] # <<>> /\ retired[id][1].swapped

\* the placements one swap of two device qubits away from the current one,
\* and the current one
NearbyPlacements ==
  {placement} \cup {PlacementSwap(placement, p, q) : p, q \in PhysicalQubits}

\* the op is a measurement, or has fewer than two qubits, or its two device
\* qubits under placement pl are adjacent
Mappable(pl, virtOp) ==
  \/ hasQuantumMeasureTrait(ops[virtOp.op])
  \/ Len(virtOp.qubits) < 2
  \/ Contains(getNeighbours(device, getPhy(pl, virtOp.qubits[1])),
              getPhy(pl, virtOp.qubits[2]))

\* C20: mapOperation succeeds if and only if the op is a measurement, or has
\* fewer than two qubit operands, or its two device qubits under the placement
\* are adjacent: for every op of the front layer under the current placement
\* and under every placement one swap away; the ops that mapFrontLayer leaves
\* in the front layer are the others, and every retired op was one of these.
C20_MapOperationIff ==
  Routing =>
    /\ \A i \in DOMAIN frontLayer : \A pl \in NearbyPlacements :
         mapOperation(device, pl, ops, phyToWire, frontLayer[i]).ok
           <=> Mappable(pl, frontLayer[i])
    /\ pc = "chooseSwap" =>
         \A i \in DOMAIN frontLayer : ~Mappable(placement, frontLayer[i])
    /\ \A id \in ProgramOps :
         retired[id] # <<>> =>
           \/ OpKind(id) \in {"mz", "g1", "sink"}
           \/ areConnected(device, retired[id][1].phys[1], retired[id][1].phys[2])

\* a measurement of two qubits was retired on device qubits that are not
\* adjacent
C20_Witness ==
  /\ Succeeded
  /\ \E id \in ProgramOps :
       /\ OpKind(id) = "mz" /\ Len(OpQubits(id)) = 2
       /\ retired[id] # <<>>
       /\ ~areConnected(device, retired[id][1].phys[1], retired[id][1].phys[2])

\* the ops of the front layer whose mapping attempt fails, in their order
FailedOps == SelectSeq(frontLayer, LAMBDA v : ~Mappable(placement, v))

\* the device qubits of the ops of a layer under the current placement
PhysOf(layer) ==
  UNION {{getPhy(placement, layer[i].qubits[k]) : k \in DOMAIN layer[i].qubits} :
           i \in DOMAIN layer}

\* C21: a failed mapping attempt keeps the op in the next front layer, in the
\* order of the failed ops and ahead of nothing it was behind, records both
\* its device qubits as involved, and leaves the placement, the decay
\* weights, the op, its visit count and the wires on its device qubits as
\* they were; a call in which every attempt fails changes nothing else.
C21_FailedAttempt ==
  [][(pc = "loop" /\ frontLayer # <<>>) =>
       /\ SelectSeq(frontLayer', LAMBDA v : Contains(FailedOps, v)) = FailedOps
       /\ Range(involvedPhy') = Range(involvedPhy) \cup PhysOf(FailedOps)
       /\ placement' = placement
       /\ phyDecay' = phyDecay
       /\ \A i \in DOMAIN FailedOps :
            /\ ops'[FailedOps[i].op] = ops[FailedOps[i].op]
            /\ visited'[FailedOps[i].op] = visited[FailedOps[i].op]
            /\ retired'[FailedOps[i].op] = retired[FailedOps[i].op]
       /\ \A p \in PhysOf(FailedOps) : phyToWire'[p] = phyToWire[p]
       /\ FailedOps = frontLayer =>
            /\ frontLayer' = frontLayer
            /\ UNCHANGED <<ops, phyToWire, visited, retired, measureLayer>>
            /\ pc' = "chooseSwap"]_vars

\* a call of mapFrontLayer retired one op and kept two failed ops, in order,
\* with their four device qubits involved
C21_Witness ==
  /\ pc = "loop"
  /\ Len(frontLayer) >= 2
  /\ Len(involvedPhy) = 4
  /\ \E id \in ProgramOps : retired[id] # <<>>
  /\ \A i \in DOMAIN frontLayer : ~Mappable(placement, frontLayer[i])

\* the measurements of the program
MeasureOps == {id \in ProgramOps : hasQuantumMeasureTrait(InitialOps[id])}

\* C22: no measurement is retired, or in the front layer, before the
\* measurement phase has started; a measurement that is ready before it waits
\* in the measure layer; and the phase starts only in a step that finds the
\* front layer empty and moves the measure layer into it.
C22_MeasurementsDeferred ==
  /\ []((Routing /\ ~allowMeasurementMapping) =>
          \A id \in MeasureOps :
            /\ retired[id] = <<>>
            /\ id \notin LayerOps(frontLayer)
            /\ ops[id] = InitialOps[id]
            /\ visited[id] = Len(InitialOps[id].ins) => id \in LayerOps(measureLayer))
  /\ [][(~allowMeasurementMapping /\ allowMeasurementMapping') =>
          /\ frontLayer = <<>>
          /\ frontLayer' = measureLayer
          /\ measureLayer' = <<>>
          /\ UNCHANGED <<ops, retired, placement, swapLog>>]_vars

\* a measurement is ready and waits in the measure layer while a gate is
\* blocked in the front layer
C22_Witness ==
  /\ pc = "chooseSwap" /\ ~allowMeasurementMapping
  /\ frontLayer # <<>>
  /\ \E id \in MeasureOps :
       /\ visited[id] = Len(InitialOps[id].ins)
       /\ id \in LayerOps(measureLayer)
       /\ retired[id] = <<>>

\* the gates of the program that the router's visits reach
GateOps == {id \in ReachedOps : InitialOps[id].kind \in {"g1", "g2"}}

\* a gate or a sink of the program acts on a wire that a measurement produced
\* (directly or through other ops)
RECURSIVE AfterMeasurement(_)
AfterMeasurement(id) ==
  \E b \in PrecedingOps(id) : b \in MeasureOps \/ AfterMeasurement(b)
WorkAfterMeasurement == \E id \in ProgramOps \ MeasureOps : AfterMeasurement(id)

\* the step of route that starts the measurement phase
StartsMeasurementPhase == ~allowMeasurementMapping /\ allowMeasurementMapping'

\* C23: when the measure layer is promoted into the front layer every gate of
\* the circuit has been retired, and no swap is added from then on.
C23_GatesBeforeMeasurementPhase ==
  /\ [][StartsMeasurementPhase => \A id \in GateOps : retired[id] # <<>>]_vars
  /\ [][allowMeasurementMapping => swapLog' = swapLog]_vars

\* in a circuit where nothing follows a measurement, every gate and sink the
\* router reaches is retired when the measurement phase starts, and no swap
\* is added after
MeasurementPhaseLast ==
  /\ [][(StartsMeasurementPhase /\ ~WorkAfterMeasurement) =>
          \A id \in ReachedOps \ MeasureOps : retired[id] # <<>>]_vars
  /\ [][(allowMeasurementMapping /\ ~WorkAfterMeasurement) => swapLog' = swapLog]_vars

\* route has left its loop
Done == pc \in {"routed", "exit"} /\ placement # NewPlacement(0, 0)

\* C24: the measurement phase starts in the first step of route that finds
\* the front layer empty, and only there; the flag is never cleared; route
\* leaves its loop only from an empty front layer with the flag set; and when
\* it has left, the front layer and the measure layer are empty.
C24_PhaseProtocol ==
  /\ [][allowMeasurementMapping => allowMeasurementMapping']_vars
  /\ [][StartsMeasurementPhase => (pc = "loop" /\ frontLayer = <<>> /\ pc' = "loop")]_vars
  /\ [][(pc = "loop" /\ frontLayer = <<>> /\ ~allowMeasurementMapping) =>
          (allowMeasurementMapping' /\ pc' = "loop")]_vars
  /\ [][(pc # "routed" /\ pc' = "routed") =>
          (pc = "loop" /\ frontLayer = <<>> /\ allowMeasurementMapping)]_vars
  /\ [](Done => (allowMeasurementMapping /\ frontLayer = <<>> /\ measureLayer = <<>>))

\* route has left its loop after a run in which two measurements waited in
\* the measure layer and were retired in the measurement phase
C24_Witness ==
  /\ pc = "routed" /\ allowMeasurementMapping
  /\ frontLayer = <<>> /\ measureLayer = <<>>
  /\ Cardinality(MeasureOps) = 2
  /\ \A id \in MeasureOps : Len(retired[id]) = 1

\* the positions of chooseSwap, between a stall and the swap it adds
InChooseSwap == pc \in {"chooseSwap", "swapTry", "swapUndo"}

\* C25: a round of route with a non-empty front layer adds no swap itself; it
\* goes on to chooseSwap exactly when it retired nothing (a stall); chooseSwap
\* adds nothing until its choice is made; the choice adds exactly one swap
\* (placement, swap op) and the front layer is attempted again; and no other
\* step adds a swap.
C25_OneSwapPerStall ==
  /\ [][(pc = "loop" /\ frontLayer # <<>>) =>
          /\ swapLog' = swapLog /\ placement' = placement
          /\ (pc' = "chooseSwap") <=> (retired' = retired)
          /\ (pc' = "loop") <=> (retired' # retired)]_vars
  /\ [][InChooseSwap =>
          (swapLog' = swapLog /\ (InChooseSwap' \/ pc' = "pick"))]_vars
  /\ [][pc = "pick" =>
          /\ pc' = "loop" /\ frontLayer' = frontLayer /\ frontLayer # <<>>
          /\ placement' # placement
          /\ Len(swapLog) < SwapCap => Len(swapLog') = Len(swapLog) + 1]_vars
  /\ [][pc # "pick" => swapLog' = swapLog]_vars

\* a round that retired an op and added no swap, after a stall round that
\* added one
C25_Witness ==
  /\ pc = "loop" /\ Len(swapLog) = 1
  /\ \E id \in ProgramOps : retired[id] # <<>> /\ retired[id][1].swapped

\* the pairs (p, q) with p involved and q a neighbour of p on the device
InvolvedEdges ==
  {<<p, q>> : p \in Range(involvedPhy), q \in PhysicalQubits}
    \cap {e \in PhysicalQubits \X PhysicalQubits :
            Contains(BuildDevice(device).neighbours[e[1]], e[2])}

\* the placement chooseSwap was entered with, and the device qubits of the
\* front layer under it
StallPlacement == IF pc = "chooseSwap" THEN placement ELSE placementAtStall
PhysAtStall ==
  UNION {{getPhy(StallPlacement, frontLayer[i].qubits[k]) :
            k \in DOMAIN frontLayer[i].qubits} : i \in DOMAIN frontLayer}

\* C26: at a stall the involved qubits are the device qubits of the blocked
\* ops of the front layer, and the candidates are exactly the pairs (p, q)
\* with p involved and q a device neighbour of p, each once; every swap added
\* acts on two adjacent device qubits, the first of them a device qubit of a
\* blocked op of the front layer; the involved set is empty right after.
C26_Candidates ==
  /\ [](pc \in {"chooseSwap", "swapTry", "swapUndo", "pick"} =>
          /\ frontLayer # <<>>
          /\ Range(involvedPhy) = PhysAtStall
          /\ \A i \in DOMAIN frontLayer : ~Mappable(StallPlacement, frontLayer[i]))
  /\ [](pc \in {"swapTry", "swapUndo", "pick"} =>
          /\ Range(candidates) = InvolvedEdges
          /\ Len(candidates) = Cardinality(InvolvedEdges))
  /\ [][pc = "pick" =>
          /\ involvedPhy' = <<>>
          /\ \E e \in InvolvedEdges :
               /\ placement' = PlacementSwap(placement, e[1], e[2])
               /\ e[1] \in PhysAtStall
               /\ areConnected(device, e[1], e[2])
               /\ Len(swapLog) < SwapCap =>
                    (swapLog'[Len(swapLog')].q0 = e[1] /\ swapLog'[Len(swapLog')].q1 = e[2])]_vars
  /\ []((Routing \/ Succeeded) =>
          \A k \in DOMAIN swapLog : areConnected(device, swapLog[k].q0, swapLog[k].q1))

\* right after the second swap of a run: the involved set is empty and a
\* blocked op is still in the front layer
C26_Witness ==
  /\ pc = "loop" /\ Len(swapLog) = 2
  /\ involvedPhy = <<>>
  /\ frontLayer # <<>>
  /\ \E i \in DOMAIN frontLayer : ~Mappable(placement, frontLayer[i])

\* the mean over a layer of the distance of each op's two device qubits, less
\* one, under placement pl
MeanDistance(pl, layer) ==
  <<Sum([i \in DOMAIN layer |->
           BuildDevice(device).distance[getPhy(pl, layer[i].qubits[1])]
                                       [getPhy(pl, layer[i].qubits[2])] - 1]),
    Len(layer)>>

\* max(decay[p], decay[q]) x (frontCost + 0.5 x extendedCost) with frontCost
\* the mean over the front layer and extendedCost the mean over the extended
\* layer divided by its size, 0 when it is empty
StatedCost(pl, cand) ==
  LET maxDecay == <<Max(phyDecay[cand[1]], phyDecay[cand[2]]), 2>>
      frontCost == MeanDistance(pl, frontLayer)
      extendedCost == IF extendedLayer = <<>> THEN <<0, 1>>
                      ELSE RatDivInt(MeanDistance(pl, extendedLayer), Len(extendedLayer))
  IN RatMul(maxDecay, RatAdd(frontCost, RatMul(<<1, 2>>, extendedCost)))

\* C27: the cost of each candidate, computed on the placement with the
\* candidate applied, is max(decay[p], decay[q]) x (frontCost + 0.5 x
\* extendedCost), frontCost being the mean over the front layer whether or not
\* the extended layer is empty.
C27_CostFormula ==
  pc = "swapUndo" =>
    /\ placement = PlacementSwap(placementAtStall, candidates[Len(cost)][1],
                                 candidates[Len(cost)][2])
    /\ RatEq(cost[Len(cost)], StatedCost(placement, candidates[Len(cost)]))

\* the stated cost is the computed one when the extended layer is empty or
\* the front layer holds one op
CostAsStatedWhenSimple ==
  (pc = "swapUndo" /\ (extendedLayer = <<>> \/ Len(frontLayer) = 1)) =>
    RatEq(cost[Len(cost)], StatedCost(placement, candidates[Len(cost)]))

\* with a non-empty extended layer the front-layer mean is divided by the
\* size of the front layer once more
CostWithLookahead ==
  (pc = "swapUndo" /\ extendedLayer # <<>>) =>
    LET cand == candidates[Len(cost)]
        maxDecay == <<Max(phyDecay[cand[1]], phyDecay[cand[2]]), 2>>
    IN RatEq(cost[Len(cost)],
             RatMul(maxDecay,
                    RatAdd(RatDivInt(MeanDistance(placement, frontLayer), Len(frontLayer)),
                           RatMul(<<1, 2>>,
                                  RatDivInt(MeanDistance(placement, extendedLayer),
                                            Len(extendedLayer))))))

\* the first index of a cost that no cost is below
FirstMinimal ==
  CHOOSE m \in DOMAIN cost :
    /\ \A i \in DOMAIN cost : ~RatLess(cost[i], cost[m])
    /\ \A i \in DOMAIN cost : i < m => RatLess(cost[m], cost[i])

\* C28: the swap applied at a stall is the candidate of minimal cost, the
\* first of them in the order of the candidate list when several are minimal:
\* every candidate has a cost, none is below the chosen one's, and every
\* candidate before the chosen one costs strictly more.
C28_FirstMinimalSwap ==
  /\ [](pc = "pick" => Len(cost) = Len(candidates) /\ cost # <<>>)
  /\ [][pc = "pick" =>
          /\ placement' = PlacementSwap(placement, candidates[FirstMinimal][1],
                                        candidates[FirstMinimal][2])
          /\ Len(swapLog) < SwapCap =>
               /\ swapLog'[Len(swapLog')].q0 = candidates[FirstMinimal][1]
               /\ swapLog'[Len(swapLog')].q1 = candidates[FirstMinimal][2]]_vars

\* a swap was applied that was not the first candidate and whose cost another
\* candidate, later in the list, equalled
C28_Witness ==
  /\ pc = "loop" /\ swapLog # <<>> /\ involvedPhy = <<>> /\ cost # <<>>
  /\ FirstMinimal > 1
  /\ \E i \in DOMAIN cost : i > FirstMinimal /\ RatEq(cost[i], cost[FirstMinimal])
  /\ swapLog[Len(swapLog)].q0 = candidates[FirstMinimal][1]
  /\ swapLog[Len(swapLog)].q1 = candidates[FirstMinimal][2]

\* the device qubits whose virtual qubit the step changes
SwappedQubits == {p \in PhysicalQubits : getVr(placement', p) # getVr(placement, p)}

\* the number of the swap the step adds: the length of the log with it, as
\* long as the log is kept in full
SwapNumber == Len(swapLog) + 1

\* C29: after swap number k, if k is a multiple of roundsDecayReset every
\* decay weight is 1.0 (2 halves), those of the two swapped qubits included;
\* otherwise the weights of exactly the two swapped qubits are 0.5 (1 half)
\* higher and all others are unchanged; no other step of the routing changes
\* a decay weight.
C29_DecayUpdate ==
  /\ [][(pc = "pick" /\ Len(swapLog) < SwapCap) =>
          /\ Cardinality(SwappedQubits) = 2
          /\ numSwapSearches = SwapNumber
          /\ IF SwapNumber % 5 = 0
             THEN \A p \in PhysicalQubits : phyDecay'[p] = 2
             ELSE \A p \in PhysicalQubits :
                    phyDecay'[p] = phyDecay[p] + (IF p \in SwappedQubits THEN 1 ELSE 0)]_vars
  /\ [][(Routing /\ pc # "pick") => phyDecay' = phyDecay]_vars
  /\ [](pc = "route" => \A p \in PhysicalQubits : phyDecay[p] = 2)

\* right after the fifth swap every decay weight is 1.0 again
C29_Witness ==
  /\ pc = "loop" /\ Len(swapLog) = 5 /\ involvedPhy = <<>>
  /\ \A p \in PhysicalQubits : phyDecay[p] = 2

\* C30: the extended layer never holds more ops than extendedLayerSize.
C30_ExtendedLayerBounded == Len(extendedLayer) <= extendedLayerSize

\* the extended layer exceeds its capacity by less than one level of the
\* lookahead: a level holds at most one two-qubit op per pair of device qubits
ExtendedLayerOvershoot ==
  Routing => Len(extendedLayer) < extendedLayerSize + (Cardinality(PhysicalQubits) \div 2)

(***************************************************************************)
(* The extended layer.                                                     *)
(***************************************************************************)
\* chooseSwap after selectExtendedLayer has returned
AfterLookahead == pc \in {"swapTry", "swapUndo", "pick"}

\* op id uses, directly or through other ops, a result of an op of the set F
RECURSIVE SuccessorOf(_, _)
SuccessorOf(id, F) ==
  \E i \in DOMAIN ops[id].ins :
    LET before == ops[id].ins[i][1]
    IN before \in F \/ (before > 0 /\ SuccessorOf(before, F))

\* the ops the lookahead can arrive at that do not influence the placement
LookaheadSkips ==
  {id \in ProgramOps :
     /\ SuccessorOf(id, LayerOps(frontLayer))
     /\ \/ hasQuantumMeasureTrait(ops[id])
        \/ Len(getQuantumOperands(ops[id])) # 2}

\* C31: every operation in the extended layer is a two-qubit non-measurement
\* operation, not yet retired, a successor of the front layer and not itself
\* in the front layer; single-qubit operations, sinks and measurements that
\* the lookahead reaches are not in it.
C31_ExtendedLayerContents ==
  AfterLookahead =>
    /\ \A i \in DOMAIN extendedLayer :
         LET id == extendedLayer[i].op
         IN /\ ~hasQuantumMeasureTrait(ops[id])
            /\ ops[id].kind \notin {"g1", "sink"}
            /\ Len(getQuantumOperands(ops[id])) = 2
            /\ Len(extendedLayer[i].qubits) = 2
            /\ Len(retired[id]) = 0
            /\ SuccessorOf(id, LayerOps(frontLayer))
            /\ id \notin LayerOps(frontLayer)
    /\ LayerOps(extendedLayer) \cap LookaheadSkips = {}

\* a lookahead that passed a single-qubit gate, a measurement and a sink and
\* put a two-qubit gate in the extended layer
C31_Witness ==
  /\ AfterLookahead
  /\ extendedLayer # <<>>
  /\ \E id \in LookaheadSkips : ops[id].kind = "g1"
  /\ \E id \in LookaheadSkips : ops[id].kind = "mz"
  /\ \E id \in LookaheadSkips : ops[id].kind = "sink"

\* the step of chooseSwap that builds the extended layer
LookaheadStep == pc = "chooseSwap" /\ pc' # "chooseSwap"

\* C32: building the extended layer leaves the front layer, the measure layer,
\* the visit counters, Placement, the physical-to-wire table and the decay
\* weights exactly as they were.
C32_LookaheadOnlyBiases ==
  [][LookaheadStep =>
       /\ frontLayer' = frontLayer
       /\ measureLayer' = measureLayer
       /\ visited' = visited
       /\ placement' = placement
       /\ phyToWire' = phyToWire
       /\ phyDecay' = phyDecay]_vars

\* what the lookahead does leave alone: everything but the measure layer,
\* which keeps its ops in their order and receives at its end measurements
\* that follow the front layer and that no op has yet been retired before
LookaheadFrame ==
  [][LookaheadStep =>
       /\ frontLayer' = frontLayer
       /\ visited' = visited
       /\ placement' = placement
       /\ phyToWire' = phyToWire
       /\ phyDecay' = phyDecay
       /\ ops' = ops
       /\ retired' = retired
       /\ swapLog' = swapLog
       /\ Len(measureLayer') >= Len(measureLayer)
       /\ SubSeq(measureLayer', 1, Len(measureLayer)) = measureLayer
       /\ \A i \in (Len(measureLayer) + 1)..Len(measureLayer') :
            LET id == measureLayer'[i].op
            IN /\ hasQuantumMeasureTrait(ops[id])
               /\ ~allowMeasurementMapping
               /\ SuccessorOf(id, LayerOps(frontLayer))
               /\ id \notin LayerOps(measureLayer)
       /\ measureLayerSet' = measureLayerSet \cup LayerOps(measureLayer')]_vars

(***************************************************************************)
(* The rewritten circuit: wires and their consumers.                       *)
(***************************************************************************)
\* the operands of the rewritten ops and of the swaps created by addSwap
RetiredOps == {id \in ProgramOps : retired[id] # <<>>}
RewrittenUses ==
  UNION {{[user |-> id, idx |-> i, wire |-> ops[id].ins[i]] :
            i \in DOMAIN ops[id].ins} : id \in RetiredOps}
  \cup {[user |-> 0 - k, idx |-> i, wire |-> swapLog[k].ins[i]] :
          k \in DOMAIN swapLog, i \in 1..2}

\* C33: in the rewritten output every wire is consumed by at most one
\* operation: a retired operation and an emitted swap consume the current
\* wires of their physical qubits, which no other operation has consumed.
C33_SingleConsumer ==
  ((Routing \/ Succeeded) /\ Len(swapLog) < SwapCap) =>
    \A u1, u2 \in RewrittenUses : u1.wire = u2.wire => u1 = u2

\* a wire has two consumers only when one of them is a sink: mapOperation
\* leaves the wire a sink consumed in the physical-to-wire table
SingleConsumerBarSinks ==
  ((Routing \/ Succeeded) /\ Len(swapLog) < SwapCap) =>
    \A u1, u2 \in RewrittenUses :
      (u1.wire = u2.wire /\ u1 # u2) =>
        \E u \in {u1, u2} : u.user > 0 /\ ops[u.user].kind = "sink"

\* an op retired by mapFrontLayer is rewritten onto the wires the table held
\* for its device qubits, and its results, if it has any, take their place;
\* a swap consumes the wires of its two device qubits and replaces them
ConsumesCurrentWires ==
  [][/\ (pc = "loop" /\ frontLayer # <<>>) =>
          \A id \in ProgramOps :
            Len(retired'[id]) > Len(retired[id]) =>
              LET phys == retired'[id][Len(retired'[id])].phys
              IN /\ ops'[id].ins = [i \in DOMAIN phys |-> phyToWire[phys[i]]]
                 /\ phys = [i \in DOMAIN phys |->
                              getPhy(placement, wireToVirtualQ[ops[id].ins[i]])]
                 /\ \A i \in DOMAIN phys :
                      phyToWire'[phys[i]] =
                        IF ops[id].kind = "sink" THEN phyToWire[phys[i]]
                        ELSE <<id, i>>
     /\ (pc = "pick" /\ pc' = "loop" /\ Len(swapLog) < SwapCap) =>
          LET swap == swapLog'[Len(swapLog')]
          IN /\ Len(swapLog') = Len(swapLog) + 1
             /\ swap.ins = <<phyToWire[swap.q0], phyToWire[swap.q1]>>
             /\ phyToWire' = [phyToWire EXCEPT ![swap.q0] = <<0 - Len(swapLog'), 1>>,
                                                ![swap.q1] = <<0 - Len(swapLog'), 2>>]
    ]_vars

(***************************************************************************)
(* The auxiliary qubits after routing.                                     *)
(***************************************************************************)
\* some op of the block, or a swap created by addSwap, uses the wire of source id
HasUsers(id) ==
  \/ \E u \in DOMAIN ops : \E i \in DOMAIN ops[u].ins : ops[u].ins[i] = <<id, 1>>
  \/ \E k \in DOMAIN swapLog : \E i \in 1..2 : swapLog[k].ins[i] = <<id, 1>>
Erased(id) == ops[id].kind = "erased"

\* C34: after routing, auxiliary qubit i is removed if and only if it and
\* every auxiliary qubit of a higher index have no users; an unused one below
\* a used one is kept; no original source is removed; before the end of the
\* routing nothing is removed.
C34_TrailingAncillasPruned ==
  /\ Succeeded =>
       /\ \A i \in (numOrigQubits + 1)..Len(sources) :
            /\ Erased(sources[i]) <=>
                 \A j \in i..Len(sources) : ~HasUsers(sources[j])
            /\ Erased(sources[i]) <=> ~Contains(blockOrder, sources[i])
       /\ \A i \in 1..numOrigQubits :
            ~Erased(sources[i]) /\ Contains(blockOrder, sources[i])
       /\ DOMAIN mapping_v2p.value = 0..(numOrigQubits - 1)
  /\ Routing => \A i \in DOMAIN sources : ~Erased(sources[i])

\* three auxiliary qubits: the last is unused and removed, the middle one was
\* swapped and is kept, and so is the unused one below it; an original qubit
\* that no op uses is kept as well
C34_Witness ==
  /\ Succeeded
  /\ numOrigQubits = 3
  /\ Len(sources) = 6
  /\ Erased(sources[6])
  /\ HasUsers(sources[5]) /\ ~Erased(sources[5])
  /\ ~HasUsers(sources[4]) /\ ~Erased(sources[4])
  /\ ~HasUsers(sources[3]) /\ ~Erased(sources[3])

(***************************************************************************)
(* The placement and the swaps of the output.                              *)
(***************************************************************************)
\* the swap ops of the output applied, in their order, to the placement pl
RECURSIVE Replay(_, _)
Replay(log, pl) ==
  IF log = <<>> THEN pl
  ELSE Replay(Tail(log), PlacementSwap(pl, Head(log).q0, Head(log).q1))

Replayed ==
  Replay(swapLog, identityPlacement(NewPlacement(Len(sources), DeviceSize(device))))

\* C35: in every state of the routing the placement is the identity
\* placement with the emitted swaps replayed in order (inside chooseSwap,
\* between a tentative swap and its revert, the placement of the stall is),
\* the published map is that placement, and retiring operations, failed
\* attempts and the evaluation of the candidates leave the placement alone.
C35_PlacementIsReplay ==
  /\ [](((Routing \/ Succeeded) /\ Len(swapLog) < SwapCap) =>
          /\ pc # "swapUndo" => placement = Replayed
          /\ pc = "swapUndo" => placementAtStall = Replayed
          /\ Succeeded =>
               mapping_v2p.value = [v \in 0..(numOrigQubits - 1) |-> getPhy(Replayed, v)])
  /\ [][(pc \in {"route", "loop", "chooseSwap", "routed"}) =>
          placement' = placement]_vars
  /\ [][(pc = "swapUndo" /\ pc' = "pick") => placement' = placementAtStall]_vars

\* a map published after two swaps and the retirement of an op that waited
\* for a swap
C35_Witness ==
  /\ Succeeded
  /\ Len(swapLog) = 2
  /\ placement = Replayed
  /\ placement # identityPlacement(NewPlacement(Len(sources), DeviceSize(device)))
  /\ \E id \in RetiredOps : retired[id][1].swapped

(***************************************************************************)
(* The front layer at a stall.                                             *)
(***************************************************************************)
\* C36: whenever swap selection runs the front layer is not empty and each
\* of its operations is a two-qubit non-measurement operation on two distinct
\* device qubits that are not adjacent, at distance 2 or more; on a connected
\* device of two qubits or more the candidate list is not empty and the swap
\* returned is one of its entries.
C36_StallPrecondition ==
  InChooseSwap \/ pc = "pick" =>
    /\ frontLayer # <<>>
    /\ \A i \in DOMAIN frontLayer :
         LET virtOp == frontLayer[i]
             phy0 == getPhy(StallPlacement, virtOp.qubits[1])
             phy1 == getPhy(StallPlacement, virtOp.qubits[2])
         IN /\ ~hasQuantumMeasureTrait(ops[virtOp.op])
            /\ Len(virtOp.qubits) = 2
            /\ Len(getQuantumOperands(ops[virtOp.op])) = 2
            /\ {phy0, phy1} \subseteq PhysicalQubits
            /\ phy0 # phy1
            /\ ~areConnected(device, phy0, phy1)
            /\ getDistance(device, phy0, phy1) - 1 >= 1
    /\ (IsConnected(ConstructedDevice) /\ DeviceSize(device) >= 2 /\ pc # "chooseSwap") =>
         /\ candidates # <<>>
         /\ pc = "pick" => /\ Len(cost) = Len(candidates)
                           /\ minIndex(cost) \in DOMAIN candidates

\* a swap is about to be returned for a front layer of three blocked gates
C36_Witness ==
  /\ pc = "pick"
  /\ Len(frontLayer) = 3
  /\ IsConnected(ConstructedDevice)
  /\ Len(candidates) >= 2
  /\ Len(swapLog) >= 1

(***************************************************************************)
(* The decay weights.                                                      *)
(***************************************************************************)
\* C37: every decay weight is within [1.0, 3.0] in every reachable state: in
\* halves, one of 2, 3, 4, 5, 6 (the initial value plus at most
\* roundsDecayReset - 1 increments).
C37_DecayBounded ==
  (Routing \/ Succeeded) =>
    \A p \in PhysicalQubits :
      /\ phyDecay[p] >= initialDecay
      /\ phyDecay[p] <= initialDecay + (roundsDecayReset - 1) * decayDelta
      /\ phyDecay[p] \in {2, 3, 4, 5, 6}

\* a device qubit that took part in the four swaps since the start: its
\* weight is 3.0
C37_Witness ==
  /\ pc = "loop"
  /\ Len(swapLog) = roundsDecayReset - 1
  /\ \E p \in PhysicalQubits :
       phyDecay[p] = initialDecay + (roundsDecayReset - 1) * decayDelta

(***************************************************************************)
(* The measure layer.                                                      *)
(***************************************************************************)
NoDuplicates(layer) ==
  \A i, j \in DOMAIN layer : layer[i].op = layer[j].op => i = j

\* C38: the measure layer never holds a measurement twice, whether the
\* measurement was reached by a lookahead, by a retirement or by both; after
\* the promotion the front layer holds it once and it is retired once.
C38_MeasureLayerNoDuplicates ==
  (Routing \/ Succeeded) =>
    /\ NoDuplicates(measureLayer)
    /\ LayerOps(measureLayer) \subseteq measureLayerSet
    /\ NoDuplicates(frontLayer)
    /\ \A id \in MeasureOps :
         /\ Len(retired[id]) <= 1
         /\ ~(id \in LayerOps(measureLayer) /\ id \in LayerOps(frontLayer))
         /\ retired[id] # <<>> => id \notin LayerOps(measureLayer) \cup LayerOps(frontLayer)

\* a measurement recorded by the lookahead of a stall (the gate before it
\* waited for a swap) has since been reached by the retirement of that gate:
\* its count is complete and it is in the measure layer once
C38_Witness ==
  /\ pc = "loop"
  /\ ~allowMeasurementMapping
  /\ \E id \in MeasureOps :
       /\ id \in LayerOps(measureLayer)
       /\ Len(ops[id].ins) = 1
       /\ visited[id] = 1
       /\ LET before == InitialOps[id].ins[1][1]
          IN /\ before \in ProgramOps
             /\ retired[before] # <<>>
             /\ retired[before][1].swapped

(***************************************************************************)
(* The visit counts.                                                       *)
(***************************************************************************)
\* the input wires of op id whose producer is a source or a retired op
ProducedInputs(id) ==
  {i \in DOMAIN InitialOps[id].ins :
     LET before == InitialOps[id].ins[i][1]
     IN before \in 1..input.n \/ retired[before] # <<>>}

\* C39: selectExtendedLayer leaves every visit count as it found it, and in
\* every state of the routing after the visit of the sources the visit count
\* of an operation is the number of its input wires whose producer is a source
\* or has been retired, at most its number of qubit operands.
C39_VisitCountsRestored ==
  /\ [][LookaheadStep => visited' = visited]_vars
  /\ []((pc \in {"loop", "chooseSwap", "swapTry", "swapUndo", "pick", "routed"}
           \/ Succeeded) =>
          /\ \A id \in ProgramOps :
               /\ visited[id] = Cardinality(ProducedInputs(id))
               /\ visited[id] <= Len(getQuantumOperands(InitialOps[id]))
          /\ \A id \in DOMAIN visited : id \notin ProgramOps => visited[id] = 0)

\* after a lookahead: an op of the extended layer that follows a single op of
\* the front layer on both its wires has its count back at 0, and another op
\* of the extended layer, one of whose inputs is produced, has its count at 1
C39_Witness ==
  /\ pc = "swapTry"
  /\ \E id \in LayerOps(extendedLayer) :
       /\ visited[id] = 0
       /\ Cardinality({u \in LayerOps(frontLayer) : SuccessorOf(id, {u})}) = 1
  /\ \E id \in LayerOps(extendedLayer) : visited[id] = 1

====
